---- MODULE Spec2Model ----
(***************************************************************************)
(* Model of demexhealthfactor.py: a Telegram bot that stores one           *)
(* {threshold, address} subscription per chat in a process-wide dict       *)
(* (user_data), mirrors it to a JSON file, fetches a "health factor" over  *)
(* HTTP and alerts the chat when the value is below the threshold.         *)
(*                                                                         *)
(* Granularity: one action is the code a coroutine runs between two        *)
(* awaits that suspend it: session.get, response.json(), reply_text and    *)
(* send_message (asyncio is cooperative, file I/O in save/load is          *)
(* synchronous).  A message is recorded when the coroutine hands it to the *)
(* chat platform; the call then returns or raises.                         *)
(*                                                                         *)
(* Strings are TLA+ strings (Len, SubSeq and \o work on them).  A Python   *)
(* value is a record [tag, neg, sig, e]: a float is the decimal repr()     *)
(* writes for the double (sig / 10^e, negated when neg), an int its        *)
(* decimal digits; None, bools, strings and containers have their own      *)
(* tags.                                                                   *)
(***************************************************************************)
EXTENDS Integers, Sequences, FiniteSets, Bags, TLC

(***************************************************************************)
(* Strings                                                                 *)
(***************************************************************************)
Digits == <<"0", "1", "2", "3", "4", "5", "6", "7", "8", "9">>
Upper == "ABCDEFGHIJKLMNOPQRSTUVWXYZ"
Lowers == "abcdefghijklmnopqrstuvwxyz"

CharAt(s, i) == SubSeq(s, i, i)

\* the first of two indexes, 0 standing for none
FirstOf(l, h) == IF l # 0 THEN l ELSE h

\* index of the first ch in s[lo..hi], 0 when absent
RECURSIVE IndexBetween(_, _, _, _)
IndexBetween(s, ch, lo, hi) ==
    IF lo > hi THEN 0
    ELSE IF lo = hi THEN (IF CharAt(s, lo) = ch THEN lo ELSE 0)
    ELSE FirstOf(IndexBetween(s, ch, lo, (lo + hi) \div 2),
                 IndexBetween(s, ch, (lo + hi) \div 2 + 1, hi))

\* index of the one-character string ch in the string s from i on, 0 when absent
IndexIn(s, ch, i) == IndexBetween(s, ch, i, Len(s))

\* the length of a run that covers n of the first len characters and goes
\* on with rest when it covers them all
RunOf(n, len, rest) == IF n < len THEN n ELSE n + rest

\* how many characters at the start of s[lo..hi] are in the set chars
RECURSIVE Leading(_, _, _, _)
Leading(s, chars, lo, hi) ==
    IF lo > hi THEN 0
    ELSE IF lo = hi THEN (IF CharAt(s, lo) \in chars THEN 1 ELSE 0)
    ELSE RunOf(Leading(s, chars, lo, (lo + hi) \div 2),
               (lo + hi) \div 2 - lo + 1,
               Leading(s, chars, (lo + hi) \div 2 + 1, hi))

\* how many characters at the end of s[lo..hi] are in the set chars
RECURSIVE Trailing(_, _, _, _)
Trailing(s, chars, lo, hi) ==
    IF lo > hi THEN 0
    ELSE IF lo = hi THEN (IF CharAt(s, lo) \in chars THEN 1 ELSE 0)
    ELSE RunOf(Trailing(s, chars, (lo + hi) \div 2 + 1, hi),
               hi - (lo + hi) \div 2,
               Trailing(s, chars, lo, (lo + hi) \div 2))

\* s without the characters of the set chars at its start, at its end
DropLeading(s, chars) == SubSeq(s, Leading(s, chars, 1, Len(s)) + 1, Len(s))
DropTrailing(s, chars) == SubSeq(s, 1, Len(s) - Trailing(s, chars, 1, Len(s)))

DigitOf == [ch \in {Digits[i] : i \in 1..10} |-> CHOOSE i \in 0..9 : Digits[i + 1] = ch]
LowerOf == [ch \in {CharAt(Upper, i) : i \in 1..26} |->
              CharAt(Lowers, CHOOSE i \in 1..26 : CharAt(Upper, i) = ch)]

IsDigit(ch) == ch \in DOMAIN DigitOf
DigitVal(ch) == DigitOf[ch]

\* str.startswith
StartsWith(s, prefix) ==
    /\ Len(s) >= Len(prefix)
    /\ SubSeq(s, 1, Len(prefix)) = prefix

\* str.isspace of one character up to U+00FF: space, tab, newline, vertical
\* tab, form feed, carriage return, the separators 0x1c-0x1f, next line
\* (0x85) and the no-break space (0xa0)
Spaces ==
    {" ", "\t", "\n", "\r", "\f", "", "", "", "", "", "", " "}

\* the whitespace int() and float() drop around a number: the characters
\* of str.isspace but the separators 0x1c-0x1f, which are ASCII and no
\* whitespace of the C locale
NumberSpaces == {" ", "\t", "\n", "\r", "\f", "", "", " "}

\* str.lstrip()
LStrip(s) == DropLeading(s, Spaces)

\* str.rstrip()
RStrip(s) == DropTrailing(s, Spaces)

\* str.strip(): drop leading and trailing whitespace
Strip(s) == RStrip(LStrip(s))

\* the string without the whitespace int() and float() take around a number
NumberStrip(s) == DropTrailing(DropLeading(s, NumberSpaces), NumberSpaces)

\* str.lower() on the ASCII letters of s[lo..hi]
RECURSIVE LowerBetween(_, _, _)
LowerBetween(s, lo, hi) ==
    IF lo > hi THEN ""
    ELSE IF lo = hi
    THEN (IF CharAt(s, lo) \in DOMAIN LowerOf THEN LowerOf[CharAt(s, lo)] ELSE CharAt(s, lo))
    ELSE LowerBetween(s, lo, (lo + hi) \div 2) \o LowerBetween(s, (lo + hi) \div 2 + 1, hi)

\* str.lower() on ASCII letters
Lower(s) == LowerBetween(s, 1, Len(s))

AllDigits(s) == \A i \in 1..Len(s) : IsDigit(CharAt(s, i))

\* value of a string of at most nine decimal digits ("" is 0)
RECURSIVE DigitsVal(_)
DigitsVal(s) ==
    IF Len(s) = 0 THEN 0
    ELSE 10 * DigitsVal(SubSeq(s, 1, Len(s) - 1)) + DigitVal(CharAt(s, Len(s)))

\* decimal digits of a natural number
RECURSIVE NatStr(_)
NatStr(n) ==
    IF n < 10 THEN Digits[n + 1]
    ELSE NatStr(n \div 10) \o Digits[(n % 10) + 1]

\* str(int)
Str(n) == IF n < 0 THEN "-" \o NatStr(0 - n) ELSE NatStr(n)

\* s[lo..hi] without the character ch
RECURSIVE Without(_, _, _, _)
Without(s, ch, lo, hi) ==
    IF lo > hi THEN ""
    ELSE IF lo = hi THEN (IF CharAt(s, lo) = ch THEN "" ELSE CharAt(s, lo))
    ELSE Without(s, ch, lo, (lo + hi) \div 2) \o Without(s, ch, (lo + hi) \div 2 + 1, hi)

\* int() and float() take "_" between two digits: the string without its
\* underscores, or "!" (which no number contains) when an underscore has no
\* digit before it or no digit after it
DropUnderscores(s) ==
    IF \A i \in 1..Len(s) :
           CharAt(s, i) = "_" =>
               /\ i > 1 /\ IsDigit(CharAt(s, i - 1))
               /\ i < Len(s) /\ IsDigit(CharAt(s, i + 1))
    THEN Without(s, "_", 1, Len(s))
    ELSE "!"

\* the string without its leading zeros
DropLeadingZeros(s) == DropLeading(s, {"0"})

\* the string without its trailing zeros
DropTrailingZeros(s) == DropTrailing(s, {"0"})

\* a sign before a number, and the number without it
HasSign(t) == Len(t) > 0 /\ CharAt(t, 1) \in {"+", "-"}
IsNegative(t) == Len(t) > 0 /\ CharAt(t, 1) = "-"
Unsigned(t) == IF HasSign(t) THEN SubSeq(t, 2, Len(t)) ELSE t

\* n zeros
RECURSIVE Zeros(_)
Zeros(n) ==
    IF n <= 0 THEN ""
    ELSE IF n = 1 THEN "0"
    ELSE Zeros(n \div 2) \o Zeros(n - n \div 2)

PadLeft(s, n) == Zeros(n - Len(s)) \o s

\* the int of a sign and the digits body, digs being body without its
\* leading zeros
IntOfDigits(neg, body, digs) ==
    IF Len(body) > 0 /\ Len(body) <= 4300 /\ AllDigits(body)
    THEN [ok |-> TRUE,
          v |-> IF digs = "" THEN "0"
                ELSE IF neg THEN "-" \o digs
                ELSE digs]
    ELSE [ok |-> FALSE, v |-> "0"]

ParseIntBody(neg, body) == IntOfDigits(neg, body, DropLeadingZeros(body))

ParseIntSigned(t) == ParseIntBody(IsNegative(t), Unsigned(t))

\* int(str): [ok, v]; ok = FALSE stands for ValueError, v is the int in
\* decimal, as str() writes it (an int has no largest value). Whitespace
\* around the number is dropped, a sign and underscores between digits are
\* taken; a string of more than 4300 digits is refused
\* (sys.get_int_max_str_digits()).
ParseInt(s) == ParseIntSigned(DropUnderscores(NumberStrip(s)))

(***************************************************************************)
(* Naturals of any size, for the arithmetic of float(): little-endian      *)
(* sequences of limbs in base 10000 without a zero limb at the high end;   *)
(* <<>> is 0                                                               *)
(***************************************************************************)
\* the highest index in lo..hi of a limb of a other than 0, 0 when there is none
RECURSIVE BnTop(_, _, _)
BnTop(a, lo, hi) ==
    IF lo > hi THEN 0
    ELSE IF lo = hi THEN (IF a[lo] # 0 THEN lo ELSE 0)
    ELSE FirstOf(BnTop(a, (lo + hi) \div 2 + 1, hi), BnTop(a, lo, (lo + hi) \div 2))

BnTrim(a) == SubSeq(a, 1, BnTop(a, 1, Len(a)))

\* the limbs of a string of decimal digits, four digits each from the end
BnLimbs(s) ==
    SubSeq([i \in 1..((Len(s) + 3) \div 4) |->
               DigitsVal(SubSeq(s, IF Len(s) - 4 * i + 1 < 1 THEN 1 ELSE Len(s) - 4 * i + 1,
                                Len(s) - 4 * (i - 1)))],
           1, (Len(s) + 3) \div 4)

\* the natural a string of decimal digits writes
BnFromDigits(s) == BnTrim(BnLimbs(s))

RECURSIVE NDigits(_)
NDigits(n) == IF n < 10 THEN 1 ELSE 1 + NDigits(n \div 10)

\* the number of decimal digits of a natural, 0 for 0
BnLen10(a) == IF a = <<>> THEN 0 ELSE 4 * (Len(a) - 1) + NDigits(a[Len(a)])

\* the highest index in lo..hi where a and b differ, 0 when there is none
RECURSIVE BnDiffTop(_, _, _, _)
BnDiffTop(a, b, lo, hi) ==
    IF lo > hi THEN 0
    ELSE IF lo = hi THEN (IF a[lo] # b[lo] THEN lo ELSE 0)
    ELSE FirstOf(BnDiffTop(a, b, (lo + hi) \div 2 + 1, hi),
                 BnDiffTop(a, b, lo, (lo + hi) \div 2))

\* a against b of the same length whose highest differing limb is at i
BnCmpAt(a, b, i) ==
    IF i = 0 THEN 0
    ELSE IF a[i] < b[i] THEN -1
    ELSE 1

\* -1, 0 or 1 as a is below, equal to or above b
BnCmp(a, b) ==
    IF Len(a) < Len(b) THEN -1
    ELSE IF Len(a) > Len(b) THEN 1
    ELSE BnCmpAt(a, b, BnDiffTop(a, b, 1, Len(a)))

BnLimb(a, i) == IF i <= Len(a) THEN a[i] ELSE 0

\* one limb and the carry out of it: [d, c]
BnLimbOf(n) == [d |-> <<n % 10000>>, c |-> n \div 10000]

\* the limbs l with the limbs h above them
BnJoin(l, h) == [d |-> l.d \o h.d, c |-> h.c]

\* the limbs with the carry out of them, which is below 10000^2
BnCarry(r) ==
    IF r.c = 0 THEN r.d
    ELSE IF r.c < 10000 THEN Append(r.d, r.c)
    ELSE r.d \o <<r.c % 10000, r.c \div 10000>>

\* the limbs lo..hi of a + b + c and the carry out of them: [d, c]
RECURSIVE BnAddBetween(_, _, _, _, _)

\* the limbs l with the limbs lo..hi above them
BnAddAbove(a, b, lo, hi, l) == BnJoin(l, BnAddBetween(a, b, lo, hi, l.c))

BnAddBetween(a, b, lo, hi, c) ==
    IF lo = hi THEN BnLimbOf(BnLimb(a, lo) + BnLimb(b, lo) + c)
    ELSE BnAddAbove(a, b, (lo + hi) \div 2 + 1, hi,
                    BnAddBetween(a, b, lo, (lo + hi) \div 2, c))

\* a + b of n limbs
BnAddLimbs(a, b, n) == IF n = 0 THEN <<>> ELSE BnCarry(BnAddBetween(a, b, 1, n, 0))

BnAdd(a, b) == BnAddLimbs(a, b, IF Len(a) > Len(b) THEN Len(a) ELSE Len(b))

\* one limb of a difference and the borrow out of it: [d, c]
BnBorrowOf(n) == [d |-> <<(n + 10000) % 10000>>, c |-> IF n < 0 THEN 1 ELSE 0]

\* the limbs lo..hi of a - b - c and the borrow out of them: [d, c]
RECURSIVE BnSubBetween(_, _, _, _, _)

BnSubAbove(a, b, lo, hi, l) == BnJoin(l, BnSubBetween(a, b, lo, hi, l.c))

BnSubBetween(a, b, lo, hi, c) ==
    IF lo = hi THEN BnBorrowOf(a[lo] - BnLimb(b, lo) - c)
    ELSE BnSubAbove(a, b, (lo + hi) \div 2 + 1, hi,
                    BnSubBetween(a, b, lo, (lo + hi) \div 2, c))

\* a - b for a >= b
BnSub(a, b) == IF a = <<>> THEN <<>> ELSE BnTrim(BnSubBetween(a, b, 1, Len(a), 0).d)

\* the limbs lo..hi of a * k + c and the carry out of them: [d, c]
RECURSIVE BnMulBetween(_, _, _, _, _)

BnMulAbove(a, k, lo, hi, l) == BnJoin(l, BnMulBetween(a, k, lo, hi, l.c))

BnMulBetween(a, k, lo, hi, c) ==
    IF lo = hi THEN BnLimbOf(a[lo] * k + c)
    ELSE BnMulAbove(a, k, (lo + hi) \div 2 + 1, hi,
                    BnMulBetween(a, k, lo, (lo + hi) \div 2, c))

\* a * k for k up to 200000
BnMulSmall(a, k) ==
    IF k = 0 \/ a = <<>> THEN <<>> ELSE BnCarry(BnMulBetween(a, k, 1, Len(a), 0))

RECURSIVE Pow10(_)
Pow10(e) == IF e = 0 THEN 1 ELSE 10 * Pow10(e - 1)

RECURSIVE Pow2(_)
Pow2(e) == IF e = 0 THEN 1 ELSE 2 * Pow2(e - 1)

\* a * 10000^j
BnShift(a, j) == IF a = <<>> THEN <<>> ELSE [i \in 1..j |-> 0] \o a

\* a * 10^n
BnMulPow10(a, n) == BnShift(BnMulSmall(a, Pow10(n % 4)), n \div 4)

\* a * 2^n, thirteen doublings at a time
RECURSIVE BnMulPow2(_, _)

BnMulPow2More(b, n) == IF b = <<>> THEN <<>> ELSE BnMulPow2(b, n)

BnMulPow2(a, n) ==
    IF n <= 13 THEN BnMulSmall(a, Pow2(n))
    ELSE BnMulPow2More(BnMulPow2(a, 13 * ((n \div 13 + 1) \div 2)),
                       n - 13 * ((n \div 13 + 1) \div 2))

BnPow10(n) == BnMulPow10(<<1>>, n)
BnPow2(n) == BnMulPow2(<<1>>, n)

\* the largest q in lo..hi with q * t <= r, where lo * t <= r
RECURSIVE BnQuot(_, _, _, _)

BnQuotAround(r, t, lo, hi, mid) ==
    IF BnCmp(BnMulSmall(t, mid), r) <= 0
    THEN BnQuot(r, t, mid, hi)
    ELSE BnQuot(r, t, lo, mid - 1)

BnQuot(r, t, lo, hi) ==
    IF lo = hi THEN lo ELSE BnQuotAround(r, t, lo, hi, (lo + hi + 1) \div 2)

\* long division: quotient limbs j, j - 1, ..., 0 of a by b and the remainder
RECURSIVE BnDivFrom(_, _, _)

\* the limb d above the limbs of rest
BnDivAppend(rest, d) == [q |-> Append(rest.q, d), r |-> rest.r]

\* the limb j of the quotient is d, t is b * 10000^j
BnDivLimb(a, b, j, t, d) ==
    BnDivAppend(BnDivFrom(BnSub(a, BnMulSmall(t, d)), b, j - 1), d)

BnDivAt(a, b, j, t) == BnDivLimb(a, b, j, t, BnQuot(a, t, 0, 9999))

BnDivFrom(a, b, j) ==
    IF j < 0 THEN [q |-> <<>>, r |-> a] ELSE BnDivAt(a, b, j, BnShift(b, j))

BnDivTrim(d) == [q |-> BnTrim(d.q), r |-> d.r]

\* a div b and a mod b for b > 0
BnDivMod(a, b) == BnDivTrim(BnDivFrom(a, b, Len(a) - Len(b)))

BnOdd(a) == a # <<>> /\ a[1] % 2 = 1

(***************************************************************************)
(* IEEE 754 doubles, as float() and repr() compute them                    *)
(***************************************************************************)
\* how often d doubles before it passes n, for n >= d
RECURSIVE Doublings(_, _)

DoublingsTo(n, dd) == IF BnCmp(n, dd) >= 0 THEN 1 + Doublings(n, dd) ELSE 0

Doublings(n, d) == DoublingsTo(n, BnMulSmall(d, 2))

\* the exponent of the leading bit of num / den, which is e0 or above
LeadingBit(num, den, e0) ==
    e0 + Doublings(IF e0 >= 0 THEN num ELSE BnMulPow2(num, 0 - e0),
                   IF e0 >= 0 THEN BnMulPow2(den, e0) ELSE den)

DoubleInf == [kind |-> "inf", m |-> <<>>, x |-> 0]
DoubleZero == [kind |-> "zero", m |-> <<>>, x |-> 0]

\* the double m * 2^x unless it is out of range
DoubleFinite(m, x) ==
    IF x > 971 THEN DoubleInf
    ELSE IF m = <<>> THEN DoubleZero
    ELSE [kind |-> "fin", m |-> m, x |-> x]

\* a quotient rounded up to 2^53 is 2^52 at the next exponent
DoubleCarry(m, x) ==
    IF m = BnPow2(53) THEN DoubleFinite(BnPow2(52), x + 1) ELSE DoubleFinite(m, x)

\* the quotient qr.q rounded to the nearest natural, ties to even: half is
\* -1, 0 or 1 as the remainder is below, equal to or above half the divisor
RoundHalfEven(qr, half) ==
    IF half > 0 \/ (half = 0 /\ BnOdd(qr.q)) THEN BnAdd(qr.q, <<1>>) ELSE qr.q

\* the double nearest to (n / d) * 2^x for a quotient qr of n by d below 2^53
DoubleRound(qr, d, x) ==
    DoubleCarry(RoundHalfEven(qr, BnCmp(BnMulSmall(qr.r, 2), d)), x)

DoubleDivide(n, d, x) == DoubleRound(BnDivMod(n, d), d, x)

\* the double nearest to num / den whose lowest bit is 2^x
DoubleAt(num, den, x) ==
    DoubleDivide(IF x >= 0 THEN num ELSE BnMulPow2(num, 0 - x),
                 IF x >= 0 THEN BnMulPow2(den, x) ELSE den, x)

\* the double nearest to num / den whose leading bit is 2^e2: 53 bits, fewer
\* below 2^-1022
DoubleFromBit(num, den, e2) ==
    DoubleAt(num, den, IF e2 - 52 < -1074 THEN -1074 ELSE e2 - 52)

\* the double nearest to num / den; the decimal digits give a lower bound of
\* the exponent of the leading bit
DoubleOfRatio(num, den) ==
    DoubleFromBit(num, den,
        LeadingBit(num, den,
            (((BnLen10(num) - BnLen10(den) - 1) * 33219) \div 10000) - 1))

\* the double nearest to sig / 10^e, ties to even: [kind, m, x] with kind
\* "fin" for m * 2^x (m below 2^53, x from -1074 to 971), "zero" below half
\* the smallest double, "inf" from 2^1024 - 2^970 on. sig is a string of
\* digits that begins with a digit other than 0.
Double(sig, e) ==
    IF Len(sig) - 1 - e > 308 THEN DoubleInf
    ELSE IF Len(sig) - 1 - e < -324 THEN DoubleZero
    ELSE DoubleOfRatio(
            IF e <= 0 THEN BnMulPow10(BnFromDigits(sig), 0 - e) ELSE BnFromDigits(sig),
            IF e <= 0 THEN <<1>> ELSE BnPow10(e))

\* the digits of the shortest decimal between low and high: r / s is what is
\* left of the double, mp / s and mm / s are the distances to the ends of
\* the interval of the decimals that read back as the double; the ends
\* belong to it when the double is even. The last digit is the nearer one,
\* in a tie the even one.
RECURSIVE Generate(_, _, _, _, _)

\* the digit d is the last one (low: the decimal so far is in the interval,
\* high: the decimal with d + 1 is), or the digits go on
GenerateEnd(d, rem, s, p10, m10, even, low, high, half) ==
    IF ~low /\ ~high THEN Digits[d + 1] \o Generate(rem, s, p10, m10, even)
    ELSE IF low /\ ~high THEN Digits[d + 1]
    ELSE IF high /\ ~low THEN Digits[d + 2]
    ELSE IF half < 0 THEN Digits[d + 1]
    ELSE IF half > 0 THEN Digits[d + 2]
    ELSE Digits[d + (d % 2) + 1]

\* the next digit d with what it leaves of the double
GenerateDigit(d, rem, s, p10, m10, even) ==
    GenerateEnd(d, rem, s, p10, m10, even,
        IF even THEN BnCmp(rem, m10) <= 0 ELSE BnCmp(rem, m10) < 0,
        IF even THEN BnCmp(BnAdd(rem, p10), s) >= 0 ELSE BnCmp(BnAdd(rem, p10), s) > 0,
        BnCmp(BnMulSmall(rem, 2), s))

GenerateQuot(d, r10, s, p10, m10, even) ==
    GenerateDigit(d, BnSub(r10, BnMulSmall(s, d)), s, p10, m10, even)

GenerateFrom(r10, s, p10, m10, even) ==
    GenerateQuot(BnQuot(r10, s, 0, 9), r10, s, p10, m10, even)

Generate(r, s, mp, mm, even) ==
    GenerateFrom(BnMulSmall(r, 10), s, BnMulSmall(mp, 10), BnMulSmall(mm, 10), even)

\* the decimal of the digits digs with k of them before the point
ShortestDecimal(digs, k) ==
    [sig |-> DropTrailingZeros(digs), e |-> Len(DropTrailingZeros(digs)) - k]

\* the digits of the decimal whose first digit is at 10^(k - 1)
ShortestDigits(r, s, mp, mm, even, k) ==
    ShortestDecimal(
        IF k >= 0 THEN Generate(r, BnMulPow10(s, k), mp, mm, even)
        ELSE Generate(BnMulPow10(r, 0 - k), s, BnMulPow10(mp, 0 - k),
                      BnMulPow10(mm, 0 - k), even),
        k)

\* c is -1, 0 or 1 as the upper end of the interval is below, equal to or
\* above 10^k0
ShortestPlace(r, s, mp, mm, even, k0, c) ==
    ShortestDigits(r, s, mp, mm, even,
        IF (IF even THEN c >= 0 ELSE c > 0) THEN k0 + 1 ELSE k0)

\* top / s is the upper end of the interval, 10^k0 an estimate of its size
ShortestTop(r, s, mp, mm, even, top, k0) ==
    ShortestPlace(r, s, mp, mm, even, k0,
        IF k0 >= 0 THEN BnCmp(top, BnMulPow10(s, k0))
        ELSE BnCmp(BnMulPow10(top, 0 - k0), s))

ShortestEnds(r, s, mp, mm, even, top) ==
    ShortestTop(r, s, mp, mm, even, top, BnLen10(top) - BnLen10(s))

ShortestInterval(r, s, mp, mm, even) ==
    ShortestEnds(r, s, mp, mm, even, BnAdd(r, mp))

\* the double m * 2^x as r / s with the distance mm / s to the double below;
\* the double above is twice as far away at a power of two (narrow)
ShortestScaled(m, x, narrow, f, mm) ==
    ShortestInterval(
        IF x >= 0 THEN BnMulPow2(BnMulSmall(m, f), x) ELSE BnMulSmall(m, f),
        IF x >= 0 THEN <<f>> ELSE BnMulPow2(<<f>>, 0 - x),
        IF narrow THEN BnMulSmall(mm, 2) ELSE mm,
        mm,
        ~BnOdd(m))

ShortestNarrow(m, x, narrow) ==
    ShortestScaled(m, x, narrow, IF narrow THEN 4 ELSE 2,
                   IF x >= 0 THEN BnPow2(x) ELSE <<1>>)

\* repr() of the double m * 2^x: the shortest decimal that reads back as
\* the double, and among those the nearest to it: [sig, e] for sig / 10^e
Shortest(m, x) == ShortestNarrow(m, x, m = BnPow2(52) /\ x > -1074)

(***************************************************************************)
(* Python values                                                           *)
(***************************************************************************)
Val(tag, neg, sig, e) == [tag |-> tag, neg |-> neg, sig |-> sig, e |-> e]

Abs(n) == IF n < 0 THEN 0 - n ELSE n

\* the float of the digits digs, sig being digs without its trailing zeros
FloatOfDigits(neg, digs, sig, e) == Val("float", neg, sig, e - (Len(digs) - Len(sig)))

FloatDigits(neg, digs, e) == FloatOfDigits(neg, digs, DropTrailingZeros(digs), e)

\* the float m / 10^e for a decimal that is the repr of its double (every
\* decimal of up to 15 digits between 1e-307 and 1e308 is)
Float(m, e) ==
    IF m = 0 THEN Val("float", FALSE, "", 0) ELSE FloatDigits(m < 0, NatStr(Abs(m)), e)

\* -0.0: equal to 0.0 in every comparison, written "-0.0"
NegZero == Val("float", TRUE, "", 0)
NaN == Val("nan", FALSE, "", 0)
Inf == Val("inf", FALSE, "", 0)
NegInf == Val("inf", TRUE, "", 0)

\* an int: sig holds the digits of its absolute value
PyInt(n) == Val("int", n < 0, NatStr(Abs(n)), 0)
PyNone == Val("None", FALSE, "", 0)
PyBool(b) == Val("bool", FALSE, IF b THEN "1" ELSE "0", 0)
PyStr(s) == Val("str", FALSE, s, 0)
\* a list or a dict
PyList == Val("list", FALSE, "", 0)

\* an exception instead of a value, sig names it
Raised(name) == Val("error", FALSE, name, 0)
\* float() or int() raised ValueError
FloatError == Raised("ValueError")
\* no value at all (a message field that is not interpolated)
NoFloat == Val("unset", FALSE, "", 0)

\* int, float or bool: the values that compare with a float
IsNumber(f) == f.tag \in {"float", "int", "bool", "nan", "inf"}

\* the float of the decimal s that Shortest gives
ShortestFloat(neg, s) == Val("float", neg, s.sig, s.e)

FloatOfDouble(neg, d) ==
    IF d.kind = "zero" THEN Val("float", neg, "", 0)
    ELSE IF d.kind = "inf" THEN Val("inf", neg, "", 0)
    ELSE ShortestFloat(neg, Shortest(d.m, d.x))

\* the float of a sign and a decimal: sig holds the significant digits (no
\* zero at either end, "" for zero), e places the point (the value is
\* sig / 10^e); the decimal is rounded to the nearest double, which is an
\* infinity beyond the largest one and a zero below half the smallest one.
\* A decimal of up to 15 digits (sys.float_info.dig) between 1e-307 and
\* 1e308 is the repr of its double, so it stands for that double as it is.
MakeFloat(neg, sig, e) ==
    IF sig = "" THEN Val("float", neg, "", 0)
    ELSE IF Len(sig) <= 15 /\ Len(sig) - 1 - e >= -307 /\ Len(sig) - 1 - e <= 307
    THEN Val("float", neg, sig, e)
    ELSE FloatOfDouble(neg, Double(sig, e))

\* an int beyond the doubles raises OverflowError
FiniteFloat(g) == IF g.tag = "inf" THEN Raised("OverflowError") ELSE g

\* float(n) of an int n: sig holds its digits without the zeros at the end
IntToFloat(f, sig) ==
    FiniteFloat(MakeFloat(f.neg, IF f.sig = "0" THEN "" ELSE sig, Len(sig) - Len(f.sig)))

\* float(x) of an int, a float or a bool; an int beyond the doubles raises
\* OverflowError
ToFloat(f) ==
    IF f.tag \in {"int", "bool"} THEN IntToFloat(f, DropTrailingZeros(f.sig)) ELSE f

\* position of the first "." in s, 0 when there is none
DotAt(s) == IndexIn(s, ".", 1)

\* the decimal of the digits ip before and fp after the point: lead is ip
\* and fp without the leading zeros, sig is lead without the trailing ones
DecimalOf(ip, fp, lead, sig) ==
    IF AllDigits(ip) /\ AllDigits(fp) /\ Len(ip) + Len(fp) > 0
    THEN [ok |-> TRUE, sig |-> sig, e |-> Len(fp) - (Len(lead) - Len(sig))]
    ELSE [ok |-> FALSE, sig |-> "", e |-> 0]

DecimalLead(ip, fp, lead) == DecimalOf(ip, fp, lead, DropTrailingZeros(lead))

DecimalParts(ip, fp) == DecimalLead(ip, fp, DropLeadingZeros(ip \o fp))

\* d is the position of the point, 0 when there is none
DecimalAt(s, d) ==
    DecimalParts(IF d = 0 THEN s ELSE SubSeq(s, 1, d - 1),
                 IF d = 0 THEN "" ELSE SubSeq(s, d + 1, Len(s)))

\* unsigned decimal literal without exponent, digits [ "." [digits] ] or
\* "." digits: [ok, sig, e] with the significant digits and the place of
\* the point
ParseDecimal(s) == DecimalAt(s, DotAt(s))

\* the value of the digits of an exponent: more than nine of them, which
\* places every literal beyond the doubles, are taken as 999999999
ExponentVal(digs) == IF Len(digs) > 9 THEN 999999999 ELSE DigitsVal(digs)

ExponentOf(neg, body, v) ==
    IF Len(body) > 0 /\ AllDigits(body)
    THEN [ok |-> TRUE, v |-> IF neg THEN 0 - v ELSE v]
    ELSE [ok |-> FALSE, v |-> 0]

ExponentBody(neg, body) == ExponentOf(neg, body, ExponentVal(DropLeadingZeros(body)))

\* the exponent after "e": [ "+" | "-" ] digits; [ok, v]
ParseExponent(s) == ExponentBody(IsNegative(s), Unsigned(s))

\* the float of the parts of a literal
FloatOfParts(neg, dec, ex) ==
    IF dec.ok /\ ex.ok THEN MakeFloat(neg, dec.sig, dec.e - ex.v) ELSE FloatError

\* a literal with "e" or "E" at the position at, without when at is 0
ParseNumber(neg, body, at) ==
    FloatOfParts(neg,
        ParseDecimal(IF at = 0 THEN body ELSE SubSeq(body, 1, at - 1)),
        IF at = 0 THEN [ok |-> TRUE, v |-> 0]
        ELSE ParseExponent(SubSeq(body, at + 1, Len(body))))

\* low is body in lower case
ParseLiteral(neg, body, low) ==
    IF low = "nan" THEN NaN
    ELSE IF low \in {"inf", "infinity"} THEN (IF neg THEN NegInf ELSE Inf)
    ELSE ParseNumber(neg, body, IndexIn(low, "e", 1))

ParseUnsigned(neg, body) == ParseLiteral(neg, body, Lower(body))

ParseSigned(t) == ParseUnsigned(IsNegative(t), Unsigned(t))

\* float(str): whitespace around the literal is dropped; a sign, underscores
\* between digits and an exponent are taken; "nan", "inf" and "infinity" in
\* any case
ParseFloat(s) == ParseSigned(DropUnderscores(NumberStrip(s)))

\* for an int, a finite float or a bool: its significant digits ("" for
\* zero) and the exponent of its leading digit
SigOf(f) == IF f.tag = "float" THEN f.sig ELSE DropTrailingZeros(f.sig)
SciExp(f) == Len(f.sig) - 1 - f.e

\* the first index in lo..hi where s and t differ, 0 when there is none
RECURSIVE DiffAt(_, _, _, _)
DiffAt(s, t, lo, hi) ==
    IF lo > hi THEN 0
    ELSE IF lo = hi THEN (IF CharAt(s, lo) # CharAt(t, lo) THEN lo ELSE 0)
    ELSE FirstOf(DiffAt(s, t, lo, (lo + hi) \div 2), DiffAt(s, t, (lo + hi) \div 2 + 1, hi))

\* 0.s < 0.t for strings that differ first at i, nowhere when i is 0
DigitsLtAt(s, t, i) ==
    IF i = 0 THEN Len(s) < Len(t)
    ELSE DigitVal(CharAt(s, i)) < DigitVal(CharAt(t, i))

\* 0.s < 0.t for strings of digits without trailing zeros
DigitsLt(s, t) ==
    DigitsLtAt(s, t, DiffAt(s, t, 1, IF Len(s) < Len(t) THEN Len(s) ELSE Len(t)))

\* |a| < |b| for two decimals other than zero
DecimalLt(a, b) ==
    SciExp(a) < SciExp(b) \/ (SciExp(a) = SciExp(b) /\ DigitsLt(SigOf(a), SigOf(b)))

\* -1, 0 or 1 as the double d is below, equal to or above the natural n
DoubleCmp(d, n) ==
    IF d.x >= 0 THEN BnCmp(BnMulPow2(d.m, d.x), n)
    ELSE BnCmp(d.m, BnMulPow2(n, 0 - d.x))

\* -1, 0 or 1 as the double of the float f is below, equal to or above the
\* int n in absolute value, for a float and an int other than zero
DoubleCmpInt(f, n) == DoubleCmp(Double(f.sig, f.e), BnFromDigits(n.sig))

\* an int of more than 15 digits beside a float
LongIntBeside(n, f) == n.tag = "int" /\ f.tag = "float" /\ Len(n.sig) > 15

\* |a| < |b| from the comparison c of the float with the int
CmpIsLt(c, floatFirst) == IF floatFirst THEN c < 0 ELSE c > 0

\* |a| < |b| for two numbers other than zero: the decimals decide (repr
\* preserves the order of the doubles, and an int of up to 15 digits is a
\* double); a longer int is compared with the double itself
MagnitudeLt(a, b) ==
    IF LongIntBeside(b, a) \/ LongIntBeside(a, b)
    THEN CmpIsLt(DoubleCmpInt(IF a.tag = "float" THEN a ELSE b,
                              IF a.tag = "float" THEN b ELSE a),
                 a.tag = "float")
    ELSE DecimalLt(a, b)

\* -1, 0 or 1: the sign of an int, a finite float or a bool
Sign(f) == IF SigOf(f) = "" THEN 0 ELSE IF f.neg THEN -1 ELSE 1

\* a < b on finite numbers of the signs sa and sb
LtSigned(a, b, sa, sb) ==
    IF sa # sb THEN sa < sb
    ELSE IF sa = 0 THEN FALSE
    ELSE MagnitudeLt(IF sa > 0 THEN a ELSE b, IF sa > 0 THEN b ELSE a)

\* a < b on numbers (IEEE: every comparison with nan is false)
Lt(a, b) ==
    IF a.tag = "nan" \/ b.tag = "nan" THEN FALSE
    ELSE IF a.tag = "inf" THEN a.neg /\ ~(b.tag = "inf" /\ b.neg)
    ELSE IF b.tag = "inf" THEN ~b.neg
    ELSE LtSigned(a, b, Sign(a), Sign(b))

\* repr of a float other than zero with an exponent: d[.ddd]e+XX
ReprExponent(f) ==
    CharAt(f.sig, 1)
       \o (IF Len(f.sig) > 1 THEN "." \o SubSeq(f.sig, 2, Len(f.sig)) ELSE "")
       \o "e" \o (IF SciExp(f) < 0 THEN "-" ELSE "+") \o PadLeft(NatStr(Abs(SciExp(f))), 2)

\* repr of a float other than zero without exponent
ReprPoint(f) ==
    IF f.e <= 0 THEN f.sig \o Zeros(0 - f.e) \o ".0"
    ELSE IF f.e >= Len(f.sig) THEN "0." \o Zeros(f.e - Len(f.sig)) \o f.sig
    ELSE SubSeq(f.sig, 1, Len(f.sig) - f.e) \o "."
            \o SubSeq(f.sig, Len(f.sig) - f.e + 1, Len(f.sig))

\* a repr that keeps one digit of the fraction
FloatReprOneDigit(f) ==
    IF f.tag = "int" THEN (IF f.neg THEN "-" ELSE "") \o f.sig
    ELSE IF f.tag = "nan" THEN "NaN"
    ELSE IF f.tag = "inf" THEN (IF f.neg THEN "-Infinity" ELSE "Infinity")
    ELSE (IF f.neg THEN "-" ELSE "")
         \o (IF f.sig = "" THEN "0.0"
             ELSE IF SciExp(f) < -4 \/ SciExp(f) >= 16 THEN ReprExponent(f)
             ELSE LET n == Len(f.sig)
                  IN IF f.e <= 0 THEN f.sig \o Zeros(0 - f.e) \o ".0"
                     ELSE IF f.e >= n THEN "0." \o CharAt(Zeros(f.e - n) \o f.sig, 1)
                     ELSE SubSeq(f.sig, 1, n - f.e) \o "." \o CharAt(f.sig, n - f.e + 1))

\* the number as json.dump writes it: repr of a float (with an exponent
\* below 1e-4 and from 1e16 on), NaN and Infinity for nan and inf, the
\* digits of an int
FloatRepr(f) ==
    IF f.tag = "int" THEN (IF f.neg THEN "-" ELSE "") \o f.sig
    ELSE IF f.tag = "nan" THEN "NaN"
    ELSE IF f.tag = "inf" THEN (IF f.neg THEN "-Infinity" ELSE "Infinity")
    ELSE (IF f.neg THEN "-" ELSE "")
         \o (IF f.sig = "" THEN "0.0"
             ELSE IF SciExp(f) < -4 \/ SciExp(f) >= 16 THEN ReprExponent(f)
             ELSE ReprPoint(f))

\* the digits before the point of a JSON number: "0", or digits that do
\* not begin with 0
JsonInt(ip) == Len(ip) > 0 /\ AllDigits(ip) /\ (ip = "0" \/ CharAt(ip, 1) # "0")

\* the number of the digits ip before and fp after the point at d, with
\* the exponent ex after the "e" at at
JsonNumberOf(neg, ip, fp, d, at, dec, ex) ==
    IF ~(JsonInt(ip) /\ (d = 0 \/ (Len(fp) > 0 /\ AllDigits(fp))) /\ ex.ok)
    THEN Raised("JSONDecodeError")
    ELSE IF d = 0 /\ at = 0
    THEN (IF Len(ip) > 4300 THEN Raised("ValueError")
          ELSE Val("int", neg /\ ip # "0", ip, 0))
    ELSE MakeFloat(neg, dec.sig, dec.e - ex.v)

JsonMantissaAt(neg, mant, d, at, ex) ==
    JsonNumberOf(neg,
        IF d = 0 THEN mant ELSE SubSeq(mant, 1, d - 1),
        IF d = 0 THEN "" ELSE SubSeq(mant, d + 1, Len(mant)),
        d, at, ParseDecimal(mant), ex)

JsonMantissa(neg, mant, at, ex) == JsonMantissaAt(neg, mant, DotAt(mant), at, ex)

JsonExponentAt(neg, body, at) ==
    JsonMantissa(neg,
        IF at = 0 THEN body ELSE SubSeq(body, 1, at - 1),
        at,
        IF at = 0 THEN [ok |-> TRUE, v |-> 0]
        ELSE ParseExponent(SubSeq(body, at + 1, Len(body))))

JsonUnsigned(neg, body) == JsonExponentAt(neg, body, IndexIn(Lower(body), "e", 1))

JsonSigned(tok, neg) == JsonUnsigned(neg, IF neg THEN SubSeq(tok, 2, Len(tok)) ELSE tok)

\* a JSON number token as json.loads reads it: NaN, Infinity, -Infinity, or
\* [ "-" ] int [ "." digits ] [ e [ sign ] digits ] with int "0" or digits
\* that do not begin with 0; an int when it has neither fraction nor
\* exponent (ValueError beyond 4300 digits), else a float. JSONDecodeError
\* is raised for a token that is no number.
JsonNumber(tok) ==
    IF tok = "NaN" THEN NaN
    ELSE IF tok = "Infinity" THEN Inf
    ELSE IF tok = "-Infinity" THEN NegInf
    ELSE JsonSigned(tok, IsNegative(tok))

(***************************************************************************)
(* Subscription store: the file USER_DATA_FILE                             *)
(*   kind "absent"  no such file                                           *)
(*   kind "blank"   empty or whitespace only                               *)
(*   kind "garbage" text that is not JSON (for instance a partial write)   *)
(*   kind "undecodable" bytes that are not text in the default encoding    *)
(*                  (for instance a file written as UTF-16)                *)
(*   kind "json"    a JSON object; obj maps each key to the JSON value of  *)
(*                  its threshold and to its address                       *)
(***************************************************************************)
EmptyMap == [k \in {} |-> 0]

\* JSON values: a number token, a string, null, true or false, and an array
\* or object (whose content plays no part)
JNum(tok) == [t |-> "number", s |-> tok]
JStr(str) == [t |-> "string", s |-> str]
JNull == [t |-> "null", s |-> ""]
JBool(b) == [t |-> IF b THEN "true" ELSE "false", s |-> ""]
JList == [t |-> "array", s |-> ""]

\* the Python value json.loads makes of a JSON value
JsonValue(j) ==
    CASE j.t = "number" -> JsonNumber(j.s)
      [] j.t = "string" -> PyStr(j.s)
      [] j.t = "null" -> PyNone
      [] j.t = "true" -> PyBool(TRUE)
      [] j.t = "false" -> PyBool(FALSE)
      [] j.t = "array" -> PyList

\* the JSON value json.dump writes for a Python value
JsonToken(v) ==
    CASE v.tag = "None" -> JNull
      [] v.tag = "bool" -> JBool(v.sig = "1")
      [] v.tag = "str" -> JStr(v.sig)
      [] v.tag = "list" -> JList
      [] OTHER -> JNum(FloatRepr(v))

FileAbsent == [kind |-> "absent", obj |-> EmptyMap]
FileBlank == [kind |-> "blank", obj |-> EmptyMap]
FileGarbage == [kind |-> "garbage", obj |-> EmptyMap]
FileUndecodable == [kind |-> "undecodable", obj |-> EmptyMap]

\* a dump that writes one entry of the mapping only
JsonDumpOneKey(data) ==
    [kind |-> "json",
     obj |-> [k \in (IF data = EmptyMap THEN {} ELSE {CHOOSE k \in DOMAIN data : TRUE}) |->
                [threshold |-> JsonToken(data[k].threshold),
                 address |-> data[k].address]]]

\* json.dump(data, f)
JsonDump(data) ==
    [kind |-> "json",
     obj |-> [k \in DOMAIN data |->
                [threshold |-> JsonToken(data[k].threshold),
                 address |-> data[k].address]]]

\* json.loads(content) of a JSON object
JsonLoads(f) ==
    [k \in DOMAIN f.obj |->
        [threshold |-> JsonValue(f.obj[k].threshold),
         address |-> f.obj[k].address]]

\* the keys whose threshold json.loads refuses with the exception named
Refused(f, name) ==
    {k \in DOMAIN f.obj : JsonValue(f.obj[k].threshold) = Raised(name)}

\* load_user_data can raise: f.read() raises UnicodeDecodeError on a file
\* that is not text, json.loads raises ValueError on an int of more than
\* 4300 digits; the except clauses of load_user_data name FileNotFoundError
\* and json.JSONDecodeError only
LoadRaises(f) ==
    \/ f.kind = "undecodable"
    \/ f.kind = "json" /\ Refused(f, "ValueError") # {}

\* json.loads made the object: no threshold is a token it refuses (a token
\* such as 01, .5 or 5. raises json.JSONDecodeError, an int of more than
\* 4300 digits ValueError)
Decoded(data) ==
    \A k \in DOMAIN data :
        data[k].threshold \notin {Raised("JSONDecodeError"), Raised("ValueError")}

\* the return of load_user_data for the object json.loads made of the
\* content: the object, or the {} of the except clause
LoadedOrEmpty(data) ==
    IF Decoded(data) THEN data ELSE EmptyMap

\* load_user_data can return: the first token json.loads refuses decides
\* whether it returns or raises, and the order of the keys in the text is
\* not part of a file here
LoadReturns(f) ==
    /\ f.kind # "undecodable"
    /\ f.kind = "json" => (Refused(f, "ValueError") = {} \/ Refused(f, "JSONDecodeError") # {})

\* what load_user_data returns when it returns: the object, or {} for a
\* missing file, an empty one, and content json.loads rejects
load_user_data(f) ==
    IF f.kind = "json" THEN LoadedOrEmpty(JsonLoads(f)) ELSE EmptyMap

\* the file after save_user_data(data); how is what the disk does:
\*   "ok"         the write succeeds
\*   "open_error" open() raises, the file is untouched
\*   "truncated"  open() truncates, the write fails before any byte
\*   "partial"    open() truncates, the write fails after part of the text
SaveOutcomes == {"ok", "open_error", "truncated", "partial"}

\* a save that never reaches the disk
save_user_data_Skipped(f, data, how) == f

save_user_data(f, data, how) ==
    CASE how = "ok" -> JsonDump(data)
      [] how = "open_error" -> f
      [] how = "truncated" -> FileBlank
      [] how = "partial" -> FileGarbage

(***************************************************************************)
(* Health factor client                                                    *)
(***************************************************************************)
\* what the endpoint answers
\*   net    "ok", "client_error" (aiohttp.ClientError while requesting) or
\*          "timeout" (the total timeout of the session: asyncio.TimeoutError)
\*   shape  what response.json() does
\*          "object": a JSON object, has says whether it has health_factor
\*          "invalid": the Content-Type is JSON, the body is not a JSON
\*                     object (json.JSONDecodeError or AttributeError)
\*          "mistyped": the Content-Type is not JSON, response.json()
\*                     raises aiohttp.ContentTypeError, a ClientError
\*          "timeout": the total timeout passes while the body is read
HttpOk(has, hf) ==
    [net |-> "ok", status |-> 200, shape |-> "object", has |-> has, hf |-> hf]
HttpStatus(code) ==
    [net |-> "ok", status |-> code, shape |-> "object", has |-> FALSE, hf |-> JNull]
HttpBadBody ==
    [net |-> "ok", status |-> 200, shape |-> "invalid", has |-> FALSE, hf |-> JNull]
HttpWrongType ==
    [net |-> "ok", status |-> 200, shape |-> "mistyped", has |-> FALSE, hf |-> JNull]
HttpBodyTimeout ==
    [net |-> "ok", status |-> 200, shape |-> "timeout", has |-> FALSE, hf |-> JNull]
NetError ==
    [net |-> "client_error", status |-> 0, shape |-> "invalid", has |-> FALSE, hf |-> JNull]
NetTimeout ==
    [net |-> "timeout", status |-> 0, shape |-> "invalid", has |-> FALSE, hf |-> JNull]

\* outcome of check_health_factor: a float, None, or an exception
HfValue(f) == [tag |-> "value", v |-> f]
HfNone == [tag |-> "None", v |-> NoFloat]
HfRaise == [tag |-> "raise", v |-> NoFloat]

\* float(x) of the Python value of a JSON value: TypeError for None, a list
\* and a dict
FloatOf(j) ==
    CASE j.t = "number" -> ToFloat(JsonNumber(j.s))
      [] j.t = "string" -> ParseFloat(j.s)
      [] j.t \in {"true", "false"} -> ToFloat(JsonValue(j))
      [] OTHER -> Raised("TypeError")

\* a client for which a missing health_factor field is a failure
check_health_factor_NoDefault(resp) ==
    IF resp.net = "timeout" THEN HfRaise
    ELSE IF resp.net # "ok" THEN HfNone
    ELSE IF resp.status = 200
    THEN IF resp.shape = "mistyped" THEN HfNone
         ELSE IF resp.shape # "object" THEN HfRaise
         ELSE IF ~resp.has THEN HfNone
         ELSE LET f == FloatOf(resp.hf)
              IN IF f.tag = "error" THEN HfRaise ELSE HfValue(f)
    ELSE HfNone

\* a client that reads the body whatever the status is
check_health_factor_AnyStatus(resp) ==
    IF resp.net = "timeout" THEN HfRaise
    ELSE IF resp.net # "ok" THEN HfNone
    ELSE IF resp.shape = "mistyped" THEN HfNone
    ELSE IF resp.shape # "object" THEN HfRaise
    ELSE LET f == IF resp.has THEN FloatOf(resp.hf) ELSE Float(0, 0)
         IN IF f.tag = "error" THEN HfRaise ELSE HfValue(f)

\* response = session.get(url); response.status; response.json();
\* float(data.get('health_factor', 0)); except aiohttp.ClientError.
\* asyncio.TimeoutError is no ClientError and leaves the client, as do the
\* exceptions of a body that is no JSON object and of float().
check_health_factor(resp) ==
    IF resp.net = "timeout" THEN HfRaise
    ELSE IF resp.net # "ok" THEN HfNone
    ELSE IF resp.status = 200
    THEN IF resp.shape = "mistyped" THEN HfNone
         ELSE IF resp.shape # "object" THEN HfRaise
         ELSE LET f == IF resp.has THEN FloatOf(resp.hf) ELSE Float(0, 0)
              IN IF f.tag = "error" THEN HfRaise ELSE HfValue(f)
    ELSE HfNone

\* the client's answer is known when session.get has answered: it raised,
\* or the status is not 200; else the coroutine goes on to response.json()
AnsweredAtOnce(resp) == resp.net # "ok" \/ resp.status # 200

(***************************************************************************)
(* Bounds and inputs                                                       *)
(***************************************************************************)
\* calls of save_user_data in a run
MaxSaves == 2

\* calls of save_user_data in a run that has the job queue beside them
MaxCycleSaves == 1

\* tasks earlier periodic_check runs left behind that are still in flight
\* when a run starts
MaxStrays == 1

\* update.effective_chat.id of the chats that talk to the bot: chat 7 sends
\* every command with every argument list below, chat -42 is a second
\* subscriber that only subscribes (monitor 1.0 swthx) and unsubscribes
ChatIds == {7, -42}
Callers == {7}

\* context.args: the words of the message after the command (no word holds
\* whitespace)
MonitorArgs ==
    { <<>>, <<"2.0", "swthabc", "x">>,
      <<"2.0", "swthabc">>, <<"0", "swthx">>,
      <<"abc", "swthabc">>, <<"abc", "xyz">>, <<"2.0", "xyz">> }
MonitorArgsOf(c) == IF c \in Callers THEN MonitorArgs ELSE { <<"1.0", "swthx">> }
CheckArgs == { <<>>, <<"swthabc">>, <<"xyz">> }
Texts == { " swthabc ", "swt" }

Responses ==
    { HttpOk(TRUE, JStr("1.0")), HttpOk(TRUE, JNum("5")),
      HttpOk(FALSE, JNull), HttpOk(TRUE, JStr("n/a")), HttpBadBody,
      HttpWrongType, HttpBodyTimeout, HttpStatus(500), NetError, NetTimeout }

\* a file whose entries monitor would have written
FileOneSubscriber ==
    JsonDump(("7" :> [threshold |-> Float(2, 0), address |-> "swthabc"]))

\* a file of two subscribers, as the monitors of chat 7 and of chat -42
\* leave it
FileTwoSubscribers ==
    JsonDump(("7" :> [threshold |-> Float(2, 0), address |-> "swthabc"])
               @@ ("-42" :> [threshold |-> Float(1, 0), address |-> "swthx"]))

\* a file edited by hand: the threshold of chat 7 is null
FileNullThreshold ==
    [kind |-> "json", obj |-> ("7" :> [threshold |-> JNull, address |-> "swthabc"])]

\* the files a process finds when it starts and whose entries, if any, are
\* those monitor writes
WellFormedFiles == { FileAbsent, FileBlank, FileGarbage, FileOneSubscriber }

\* the file the process finds when it starts (the import of the module, and
\* so the process, ends with the exception on a file load_user_data raises
\* on: no run starts from one)
InitFiles == WellFormedFiles \cup { FileNullThreshold }

(***************************************************************************)
(* State                                                                   *)
(***************************************************************************)
VARIABLES
    user_data,  \* the global dict: str(chat id) -> [threshold, address]
    file,       \* content of USER_DATA_FILE
    task,       \* per chat: its handler coroutine in flight, if any
    cyc,        \* check_and_notify tasks of the running periodic_check, by key
    strays,     \* bag of the check_and_notify tasks still in flight of
                \* periodic_check runs an exception has ended
    ev,         \* log: the coroutine the latest step completed
    lastOp,     \* log: per chat, whether its latest command that reached the store
                \* was a monitor or a stop, and the arguments of its latest monitor
    nsaves,     \* calls of save_user_data so far
    lastSave,   \* log: what the disk did in the latest save_user_data call
    alerted     \* log: the keys a periodic cycle has alerted so far, or
                \* Unlogged in the specifications that keep no such log

vars == <<user_data, file, task, cyc, strays, ev, lastOp, nsaves, lastSave, alerted>>

(***************************************************************************)
(* Messages handed to the chat platform; the fields are the values the     *)
(* f-string of the message interpolates                                    *)
(***************************************************************************)
Msg(kind, address, threshold, health) ==
    [kind |-> kind, address |-> address, threshold |-> threshold, health |-> health]
Plain(kind) == Msg(kind, "", NoFloat, NoFloat)

HelpMsg == Plain("help")
MonitorUsageMsg == Plain("usage_monitor")
InvalidAddressMsg == Plain("invalid_address")
SetupErrorMsg == Plain("setup_error")
CheckingMsg == Plain("checking")
UnableMsg == Plain("unable")
CheckUsageMsg == Plain("usage_check")
StoppedMsg == Plain("stopped")
NotMonitoringMsg == Plain("not_monitoring")
StartedMsg(address, threshold) == Msg("started", address, threshold, NoFloat)
HealthMsg(address, hf) == Msg("health", address, NoFloat, hf)
CurrentHealthMsg(address, hf) == Msg("current_health", address, NoFloat, hf)
MonitoringMsg(address, threshold, hf) == Msg("monitoring", address, threshold, hf)
MonitoringUnableMsg(address, threshold) == Msg("monitoring_unable", address, threshold, NoFloat)
AlertMsg(address, hf, threshold) == Msg("alert", address, threshold, hf)
NoticeMsg(address) == Msg("notice", address, NoFloat, NoFloat)

(***************************************************************************)
(* Handler coroutines                                                      *)
(***************************************************************************)
NoResp == [net |-> "none", status |-> 0, shape |-> "invalid", has |-> FALSE, hf |-> JNull]
NoRes == [tag |-> "none", v |-> NoFloat]

\* a coroutine: the await it is suspended at ("send": reply_text or
\* send_message, "get": session.get, "json": response.json()), its
\* arguments, the messages it has handed to the platform, the fetches it
\* has issued, its locals, for monitor whether it stored and what its
\* load_user_data() call did, whether its update is one without a message
\* (an edited message: update.message is None), the answer to its fetch and
\* what the client made of it, what it does when its send returns (after)
\* and whether that send is inside the try of monitor (intry)
IdleTask ==
    [pc |-> "idle", cmd |-> "none", args |-> <<>>, replies |-> <<>>, nfetch |-> 0,
     address |-> "", threshold |-> NoFloat, stored |-> FALSE, read |-> "none",
     edited |-> FALSE, resp |-> NoResp, res |-> NoRes, after |-> "none", intry |-> FALSE]

NewTask(cmd, args) == [IdleTask EXCEPT !.pc = "run", !.cmd = cmd, !.args = args]

\* the handler of an update
Handling(cmd, args, edited) == [NewTask(cmd, args) EXCEPT !.edited = edited]

\* the log entry of a coroutine that is over: its chat (the id in decimal),
\* its final state, the answer to its fetch, what the client made of it,
\* the exception that left it ("no" when it returned), for periodic_check
\* its tasks, and for a task of a cycle whether an earlier cycle had
\* alerted its key
Returned(chat, t, crashed) ==
    [chat |-> chat, t |-> [t EXCEPT !.pc = "done", !.after = "none", !.intry = FALSE],
     resp |-> t.resp, res |-> t.res, crashed |-> crashed, cycle |-> EmptyMap,
     again |-> FALSE]

NoEvent ==
    [chat |-> "", t |-> IdleTask, resp |-> NoResp, res |-> NoRes, crashed |-> "no",
     cycle |-> EmptyMap, again |-> FALSE]

\* op: "monitor" or "stop"; args: the arguments of the chat's latest monitor
\* that stored; count: its monitors that stored since its latest stop
NoOp == [op |-> "none", args |-> <<>>, count |-> 0]

\* main builds the application without concurrent updates and registers
\* every handler blocking: an update is handled once the handler of the
\* previous one has returned. Only the job queue runs alongside a handler.
Free == \A d \in ChatIds : task[d].pc = "idle"

\* one key for every chat
KeyOfShared(c) == "7"

\* chat_id = str(update.effective_chat.id)
KeyOf(c) == Str(c)

\* address.startswith('swth')
ValidAddress(address) == StartsWith(address, "swth")

\* the value of the alert log where it is not kept ("-" is no key)
Unlogged == {"-"}

\* the process has imported the module (line 50) and runs the application
InitWith(files, log) ==
    /\ file \in files
    /\ LoadReturns(file)
    /\ user_data = load_user_data(file)
    /\ task = [c \in ChatIds |-> IdleTask]
    /\ cyc = EmptyMap
    /\ strays = EmptyBag
    /\ ev = NoEvent
    /\ lastOp = [c \in ChatIds |-> NoOp]
    /\ nsaves = 0
    /\ lastSave = "none"
    /\ alerted = log

Init == InitWith(InitFiles, Unlogged)

\* the handler of chat c is over: it returned, or an exception left it
Finish(c, t, crashed) ==
    /\ task' = [task EXCEPT ![c] = IdleTask]
    /\ ev' = Returned(Str(c), t, crashed)

\* the coroutine hands msg to the platform and waits for the call to return
Send(t, msg, after, intry) ==
    [t EXCEPT !.pc = "send", !.replies = Append(@, msg), !.after = after, !.intry = intry]

\* await update.message.reply_text(msg). For an update without a message the
\* attribute access raises AttributeError: outside the try of monitor the
\* handler is over, inside it the reply of the except clause raises again.
Reply(c, t, msg, after, intry) ==
    IF t.edited
    THEN Finish(c, t, "AttributeError")
    ELSE /\ task' = [task EXCEPT ![c] = Send(t, msg, after, intry)]
         /\ ev' = NoEvent

\* start up to its reply
Start(c, edited) ==
    /\ Free
    /\ Reply(c, Handling("start", <<>>, edited), HelpMsg, "return", FALSE)
    /\ UNCHANGED <<user_data, file, cyc, strays, lastOp, nsaves, lastSave, alerted>>

(***************************************************************************)
(* check_and_notify, shared by monitor and the periodic cycle              *)
(***************************************************************************)
\* a comparison that also alerts at the threshold
AtOrBelowThreshold(hf, threshold) == hf = threshold \/ Lt(hf, threshold)

\* health_factor < threshold
BelowThreshold(hf, threshold) == Lt(hf, threshold)

\* health_factor < threshold raises TypeError unless the threshold is a
\* number
CompareRaises(res, threshold) == res.tag = "value" /\ ~IsNumber(threshold)

\* a check_and_notify that pushes only while a subscription with this
\* address and threshold is stored
NotifyMsgsIfStored(res, address, threshold) ==
    IF \E k \in DOMAIN user_data :
          user_data[k] = [threshold |-> threshold, address |-> address]
    THEN IF res.tag = "value"
         THEN IF BelowThreshold(res.v, threshold)
              THEN <<AlertMsg(address, res.v, threshold)>>
              ELSE <<>>
         ELSE IF res.tag = "None" THEN <<NoticeMsg(address)>>
         ELSE <<>>
    ELSE <<>>

\* the message check_and_notify pushes once the client has answered and the
\* comparison has not raised
NotifyMsgs(res, address, threshold) ==
    IF res.tag = "value"
    THEN IF BelowThreshold(res.v, threshold)
         THEN <<AlertMsg(address, res.v, threshold)>>
         ELSE <<>>
    ELSE IF res.tag = "None" THEN <<NoticeMsg(address)>>
    ELSE <<>>

(***************************************************************************)
(* monitor                                                                 *)
(***************************************************************************)
\* a monitor that takes any address
MonitorVerdictLax(args) ==
    IF Len(args) # 2 THEN "usage"
    ELSE IF ParseFloat(args[1]).tag = "error" THEN "error"
    ELSE "ok"

\* the branch monitor takes on its arguments
MonitorVerdict(args) ==
    IF Len(args) # 2 THEN "usage"
    ELSE IF ParseFloat(args[1]).tag = "error" THEN "error"
    ELSE IF ~ValidAddress(args[2]) THEN "invalid"
    ELSE "ok"

\* the reply of a monitor that stores nothing
RejectMsg(verdict) ==
    CASE verdict = "usage" -> MonitorUsageMsg
      [] verdict = "error" -> SetupErrorMsg
      [] verdict = "invalid" -> InvalidAddressMsg

\* an update that replaces the threshold of an existing entry only
UpsertThreshold(data, key, threshold, address) ==
    [k \in DOMAIN data \cup {key} |->
        IF k = key
        THEN [threshold |-> threshold,
              address |-> IF key \in DOMAIN data THEN data[key].address ELSE address]
        ELSE data[k]]

\* user_data[chat_id] = {'threshold': threshold, 'address': address}
Upsert(data, key, threshold, address) ==
    [k \in DOMAIN data \cup {key} |->
        IF k = key THEN [threshold |-> threshold, address |-> address] ELSE data[k]]

\* del user_data[chat_id]
Delete(data, key) == [k \in DOMAIN data \ {key} |-> data[k]]

\* what the load_user_data() call of monitor does after the save: it
\* returns, or it raises: open() an OSError its except clauses do not name
\* (PermissionError on a file without read permission, EMFILE), or the
\* content an exception they do not name (LoadRaises)
LoadOutcomes == {"ok", "os_error"}

\* monitor up to its first await; the disk does one of hows at its save and
\* one of rds at its load. The usage reply is outside the try; the
\* invalid-address reply and the confirmation are inside it, and every
\* exception inside it reaches "except Exception" and its setup-error reply.
Monitor(c, args, edited, hows, rds) ==
    /\ Free
    /\ LET verdict == MonitorVerdict(args)
           t == Handling("monitor", args, edited)
       IN IF verdict = "ok"
          THEN LET threshold == ParseFloat(args[1])
                   address == args[2]
                   data == Upsert(user_data, KeyOf(c), threshold, address)
               IN /\ nsaves < MaxSaves
                  /\ nsaves' = nsaves + 1
                  /\ user_data' = data
                  /\ lastOp' = [lastOp EXCEPT ![c] = [op |-> "monitor", args |-> args, count |-> @.count + 1]]
                  /\ \E how \in hows, rd \in rds :
                        /\ file' = save_user_data(file, data, how)
                        /\ lastSave' = how
                        /\ IF rd = "ok" /\ LoadReturns(save_user_data(file, data, how))
                           THEN Reply(c, [t EXCEPT !.stored = TRUE, !.read = "ok"],
                                      StartedMsg(address, threshold), "notify", TRUE)
                           ELSE Reply(c, [t EXCEPT !.stored = TRUE, !.read = "raised"],
                                      SetupErrorMsg, "return", FALSE)
          ELSE /\ Reply(c, t, RejectMsg(verdict), "return", verdict = "invalid")
               /\ UNCHANGED <<user_data, file, lastSave, nsaves, lastOp>>
    /\ UNCHANGED <<cyc, strays, alerted>>

\* monitor once the confirmation is sent: check_and_notify up to its fetch
MonitorNotify(c) ==
    /\ task[c].pc = "send"
    /\ task[c].after = "notify"
    /\ LET key == KeyOf(c)
           t == task[c]
       IN IF ~ParseInt(key).ok
          THEN task' = [task EXCEPT ![c] = Send(t, SetupErrorMsg, "return", FALSE)] /\ ev' = NoEvent
          ELSE IF key \notin DOMAIN user_data
          THEN Finish(c, t, "no")
          ELSE /\ task' = [task EXCEPT ![c].pc = "get",
                                       ![c].address = user_data[key].address,
                                       ![c].threshold = user_data[key].threshold,
                                       ![c].nfetch = @ + 1]
               /\ ev' = NoEvent
    /\ UNCHANGED <<user_data, file, cyc, strays, lastOp, nsaves, lastSave, alerted>>

(***************************************************************************)
(* check, stop, free text                                                  *)
(***************************************************************************)
\* check up to the "Checking..." reply
Check(c, args, edited) ==
    /\ Free
    /\ Reply(c, Handling("check", args, edited), CheckingMsg, "check", FALSE)
    /\ UNCHANGED <<user_data, file, cyc, strays, lastOp, nsaves, lastSave, alerted>>

\* check once "Checking..." is sent, up to its fetch or its last reply
CheckCont(c) ==
    /\ task[c].pc = "send"
    /\ task[c].after = "check"
    /\ LET t == task[c]
           key == KeyOf(c)
       IN IF Len(t.args) > 0
          THEN IF ~ValidAddress(t.args[1])
               THEN task' = [task EXCEPT ![c] = Send(t, InvalidAddressMsg, "return", FALSE)]
               ELSE task' = [task EXCEPT ![c].pc = "get",
                                         ![c].address = t.args[1],
                                         ![c].nfetch = @ + 1]
          ELSE IF key \in DOMAIN user_data
               THEN task' = [task EXCEPT ![c].pc = "get",
                                         ![c].address = user_data[key].address,
                                         ![c].threshold = user_data[key].threshold,
                                         ![c].nfetch = @ + 1]
               ELSE task' = [task EXCEPT ![c] = Send(t, CheckUsageMsg, "return", FALSE)]
    /\ ev' = NoEvent
    /\ UNCHANGED <<user_data, file, cyc, strays, lastOp, nsaves, lastSave, alerted>>

\* stop up to its reply: the deletion and the save (the disk does one of
\* hows) come before it
Stop(c, edited, hows) ==
    /\ Free
    /\ LET key == KeyOf(c)
           t == Handling("stop", <<>>, edited)
       IN IF key \in DOMAIN user_data
          THEN LET data == Delete(user_data, key)
               IN /\ nsaves < MaxSaves
                  /\ nsaves' = nsaves + 1
                  /\ user_data' = data
                  /\ \E how \in hows :
                        /\ file' = save_user_data(file, data, how)
                        /\ lastSave' = how
                  /\ Reply(c, [t EXCEPT !.stored = TRUE], StoppedMsg, "return", FALSE)
          ELSE /\ Reply(c, t, NotMonitoringMsg, "return", FALSE)
               /\ UNCHANGED <<user_data, file, lastSave, nsaves>>
    /\ lastOp' = [lastOp EXCEPT ![c] = [op |-> "stop", args |-> @.args, count |-> 0]]
    /\ UNCHANGED <<cyc, strays, alerted>>

\* a free-text handler that subscribes the chat to the address it checks
HandleAddressStoring(c, text, edited) ==
    /\ Free
    /\ LET address == Strip(text)
           t == Handling("text", <<text>>, edited)
       IN IF edited
          THEN Finish(c, t, "AttributeError") /\ UNCHANGED user_data
          ELSE IF ~ValidAddress(address)
          THEN Reply(c, t, InvalidAddressMsg, "return", FALSE) /\ UNCHANGED user_data
          ELSE /\ task' = [task EXCEPT ![c] =
                             [t EXCEPT !.pc = "get", !.address = address, !.nfetch = 1]]
               /\ user_data' = Upsert(user_data, KeyOf(c), Float(0, 0), address)
               /\ ev' = NoEvent
    /\ UNCHANGED <<file, cyc, strays, lastOp, nsaves, lastSave, alerted>>

\* a text message that is not a command, up to its first await;
\* update.message.text raises AttributeError for an update without a message
HandleAddress(c, text, edited) ==
    /\ Free
    /\ LET address == Strip(text)
           t == Handling("text", <<text>>, edited)
       IN IF edited
          THEN Finish(c, t, "AttributeError")
          ELSE IF ~ValidAddress(address)
          THEN Reply(c, t, InvalidAddressMsg, "return", FALSE)
          ELSE /\ task' = [task EXCEPT ![c] =
                             [t EXCEPT !.pc = "get", !.address = address, !.nfetch = 1]]
               /\ ev' = NoEvent
    /\ UNCHANGED <<user_data, file, cyc, strays, lastOp, nsaves, lastSave, alerted>>

\* the last reply_text or send_message of the handler of chat c returns
ReplyReturn(c) ==
    /\ task[c].pc = "send"
    /\ task[c].after = "return"
    /\ Finish(c, task[c], "no")
    /\ UNCHANGED <<user_data, file, cyc, strays, lastOp, nsaves, lastSave, alerted>>

\* reply_text or send_message of the handler of chat c raises (a
\* telegram.error.TelegramError: the chat blocked the bot, the network
\* failed): inside the try of monitor the except clause replies, elsewhere
\* the handler is over
ReplyFails(c) ==
    /\ task[c].pc = "send"
    /\ IF task[c].intry
       THEN /\ task' = [task EXCEPT ![c] = Send(task[c], SetupErrorMsg, "return", FALSE)]
            /\ ev' = NoEvent
       ELSE Finish(c, task[c], "TelegramError")
    /\ UNCHANGED <<user_data, file, cyc, strays, lastOp, nsaves, lastSave, alerted>>

\* what a handler sends once the client has answered; an exception of the
\* client or of the comparison reaches monitor's except clause, the other
\* handlers let it pass
AfterFetch(t, res) ==
    CASE t.cmd = "monitor" ->
            IF res.tag = "raise" \/ CompareRaises(res, t.threshold) THEN <<SetupErrorMsg>>
            ELSE NotifyMsgs(res, t.address, t.threshold)
      [] t.cmd = "check" /\ Len(t.args) > 0 ->
            IF res.tag = "value" THEN <<HealthMsg(t.address, res.v)>>
            ELSE IF res.tag = "None" THEN <<UnableMsg>>
            ELSE <<>>
      [] t.cmd = "check" /\ Len(t.args) = 0 ->
            IF res.tag = "value" THEN <<MonitoringMsg(t.address, t.threshold, res.v)>>
            ELSE IF res.tag = "None" THEN <<MonitoringUnableMsg(t.address, t.threshold)>>
            ELSE <<>>
      [] OTHER ->
            IF res.tag = "value" THEN <<CurrentHealthMsg(t.address, res.v)>>
            ELSE IF res.tag = "None" THEN <<UnableMsg>>
            ELSE <<>>

\* the handler of chat c, in state t, has the answer of the client: it
\* goes on to its next send, returns, or is left by the exception
Fetched(c, t) ==
    LET msgs == AfterFetch(t, t.res)
        caught == t.cmd = "monitor" /\ (t.res.tag = "raise" \/ CompareRaises(t.res, t.threshold))
    IN IF t.res.tag = "raise" /\ t.cmd # "monitor" THEN Finish(c, t, "fetch")
       ELSE IF msgs = <<>> THEN Finish(c, t, "no")
       ELSE /\ task' = [task EXCEPT ![c] =
                          Send(t, msgs[1], "return", t.cmd = "monitor" /\ ~caught)]
            /\ ev' = NoEvent

\* session.get of the handler of chat c answers or raises
FetchAnswer(c, resp) ==
    /\ task[c].pc = "get"
    /\ IF AnsweredAtOnce(resp)
       THEN Fetched(c, [task[c] EXCEPT !.resp = resp, !.res = check_health_factor(resp)])
       ELSE /\ task' = [task EXCEPT ![c].pc = "json", ![c].resp = resp]
            /\ ev' = NoEvent
    /\ UNCHANGED <<user_data, file, cyc, strays, lastOp, nsaves, lastSave, alerted>>

\* response.json() of the handler of chat c returns or raises
BodyAnswer(c) ==
    /\ task[c].pc = "json"
    /\ Fetched(c, [task[c] EXCEPT !.res = check_health_factor(task[c].resp)])
    /\ UNCHANGED <<user_data, file, cyc, strays, lastOp, nsaves, lastSave, alerted>>

(***************************************************************************)
(* Periodic notifier                                                       *)
(***************************************************************************)
\* a check_and_notify task of the cycle: the await it is suspended at, its
\* locals, the fetches it has issued, the message it has pushed, the
\* exception that left it ("no" for none), the answer to its fetch, what
\* the client made of it, and whether its key had been alerted before it
\* pushed
NewNotifier ==
    [pc |-> "new", address |-> "", threshold |-> NoFloat, to |-> "", nfetch |-> 0,
     sent |-> <<>>, raised |-> "no", resp |-> NoResp, res |-> NoRes, again |-> FALSE]

\* the log entry of a cycle's task that is over
NotifierReturned(k, n) ==
    [Returned(n.to,
              [IdleTask EXCEPT !.cmd = "cycle", !.args = <<k>>, !.replies = n.sent,
                               !.nfetch = n.nfetch, !.address = n.address,
                               !.threshold = n.threshold, !.resp = n.resp, !.res = n.res],
              n.raised)
       EXCEPT !.again = n.again]

\* the log entry of a periodic_check that is over
PeriodicReturned(tasks) ==
    [NoEvent EXCEPT !.t = [IdleTask EXCEPT !.pc = "done", !.cmd = "periodic"],
                    !.cycle = tasks,
                    !.crashed = IF \E k \in DOMAIN tasks : tasks[k].raised # "no"
                                THEN "task" ELSE "no"]

\* every task of gather is over
Gathered(tasks) == \A k \in DOMAIN tasks : tasks[k].pc = "done"

\* the tasks gather leaves behind: it does not cancel them
Unfinished(tasks) ==
    SetToBag({ [key |-> j, n |-> tasks[j]] :
                 j \in {i \in DOMAIN tasks : tasks[i].pc # "done"} })

\* periodic_check up to gather: one check_and_notify task per key of
\* user_data.copy(), none and no gather for an empty dict. The job queue
\* does not start a run while the previous one is running; tasks an earlier
\* run left behind do not hold it back.
PeriodicCheck ==
    /\ cyc = EmptyMap
    /\ BagCardinality(strays) < MaxStrays
    /\ cyc' = [k \in DOMAIN user_data |-> NewNotifier]
    /\ ev' = NoEvent
    /\ UNCHANGED <<user_data, file, task, strays, lastOp, nsaves, lastSave, alerted>>

\* gather wakes periodic_check: it returns once every task is over, and
\* raises as soon as one task has raised (the wake-up is scheduled behind
\* the first steps of the tasks); periodic_check is over then, and the
\* tasks not yet over go on without it
PeriodicReturn ==
    /\ cyc # EmptyMap
    /\ \A k \in DOMAIN cyc : cyc[k].pc # "new"
    /\ Gathered(cyc) \/ \E k \in DOMAIN cyc : cyc[k].raised # "no"
    /\ strays' = strays (+) Unfinished(cyc)
    /\ cyc' = EmptyMap
    /\ ev' = PeriodicReturned(cyc)
    /\ UNCHANGED <<user_data, file, task, lastOp, nsaves, lastSave, alerted>>

\* check_and_notify for key k up to its fetch: int(chat_id), the test
\* whether the key is still stored, the read of its entry
NotifierStarted(k, n) ==
    LET id == ParseInt(k)
    IN IF ~id.ok
       THEN [n EXCEPT !.pc = "done", !.raised = "ValueError"]
       ELSE IF k \notin DOMAIN user_data
       THEN [n EXCEPT !.pc = "done", !.to = id.v]
       ELSE [n EXCEPT !.pc = "get", !.to = id.v,
                      !.address = user_data[k].address,
                      !.threshold = user_data[k].threshold,
                      !.nfetch = @ + 1]

\* check_and_notify once the client has answered (n.res): the exception of
\* the client or of the comparison leaves it, or it pushes its message, or
\* it returns
NotifierFetched(k, n) ==
    IF n.res.tag = "raise" THEN [n EXCEPT !.pc = "done", !.raised = "fetch"]
    ELSE IF CompareRaises(n.res, n.threshold)
    THEN [n EXCEPT !.pc = "done", !.raised = "TypeError"]
    ELSE IF NotifyMsgs(n.res, n.address, n.threshold) = <<>> THEN [n EXCEPT !.pc = "done"]
    ELSE [n EXCEPT !.pc = "send",
                   !.sent = NotifyMsgs(n.res, n.address, n.threshold),
                   !.again = k \in alerted]

\* check_and_notify once session.get has answered
NotifierAnswered(k, n, resp) ==
    IF AnsweredAtOnce(resp)
    THEN NotifierFetched(k, [n EXCEPT !.resp = resp, !.res = check_health_factor(resp)])
    ELSE [n EXCEPT !.pc = "json", !.resp = resp]

\* check_and_notify once response.json() has answered
NotifierRead(k, n) ==
    NotifierFetched(k, [n EXCEPT !.res = check_health_factor(n.resp)])

\* check_and_notify once send_message has returned (ok) or raised
NotifierSent(n, ok) ==
    [n EXCEPT !.pc = "done", !.raised = IF ok THEN "no" ELSE "TelegramError"]

\* the alert log once the task for key k has gone on to n
Alerted(k, n) ==
    IF alerted # Unlogged /\ n.pc = "send" /\ n.res.tag = "value"
    THEN alerted \cup {k}
    ELSE alerted

\* the task for key k of the running periodic_check goes on to n
CycleStep(k, n) ==
    /\ cyc' = [cyc EXCEPT ![k] = n]
    /\ ev' = IF n.pc = "done" THEN NotifierReturned(k, n) ELSE NoEvent
    /\ alerted' = Alerted(k, n)
    /\ UNCHANGED <<user_data, file, task, strays, lastOp, nsaves, lastSave>>

\* gather has scheduled the tasks one behind the other: they all run up to
\* their first await (or to their end) before anything else does
CycleStart ==
    /\ cyc # EmptyMap
    /\ \A k \in DOMAIN cyc : cyc[k].pc = "new"
    /\ cyc' = [k \in DOMAIN cyc |-> NotifierStarted(k, cyc[k])]
    /\ ev' = NoEvent
    /\ UNCHANGED <<user_data, file, task, strays, lastOp, nsaves, lastSave, alerted>>

\* session.get of the cycle's task for key k answers or raises
NotifyAnswer(k, resp) ==
    /\ k \in DOMAIN cyc
    /\ cyc[k].pc = "get"
    /\ CycleStep(k, NotifierAnswered(k, cyc[k], resp))

\* a notifier that alerts a key once: later cycles stay silent
NotifyBodyOnce(k) ==
    /\ k \in DOMAIN cyc
    /\ cyc[k].pc = "json"
    /\ LET n == NotifierRead(k, cyc[k])
       IN CycleStep(k, IF k \in alerted /\ n.pc = "send" /\ n.res.tag = "value"
                       THEN [n EXCEPT !.pc = "done", !.sent = <<>>]
                       ELSE n)

\* response.json() of the cycle's task for key k returns or raises
NotifyBody(k) ==
    /\ k \in DOMAIN cyc
    /\ cyc[k].pc = "json"
    /\ CycleStep(k, NotifierRead(k, cyc[k]))

\* send_message of the cycle's task for key k returns or raises
NotifySent(k, ok) ==
    /\ k \in DOMAIN cyc
    /\ cyc[k].pc = "send"
    /\ CycleStep(k, NotifierSent(cyc[k], ok))

\* a left-behind task goes from r to n, or is over
Moved(r, n) ==
    IF n.pc = "done"
    THEN strays (-) SetToBag({r})
    ELSE (strays (-) SetToBag({r})) (+) SetToBag({[r EXCEPT !.n = n]})

\* the left-behind task r goes on to n
StrayStep(r, n) ==
    /\ strays' = Moved(r, n)
    /\ ev' = IF n.pc = "done"
             THEN [NotifierReturned(r.key, n) EXCEPT !.t.cmd = "stray"]
             ELSE NoEvent
    /\ alerted' = Alerted(r.key, n)
    /\ UNCHANGED <<user_data, file, task, cyc, lastOp, nsaves, lastSave>>

\* session.get of a left-behind task answers or raises
StrayAnswer(r, resp) ==
    /\ BagIn(r, strays)
    /\ r.n.pc = "get"
    /\ StrayStep(r, NotifierAnswered(r.key, r.n, resp))

\* response.json() of a left-behind task returns or raises
StrayBody(r) ==
    /\ BagIn(r, strays)
    /\ r.n.pc = "json"
    /\ StrayStep(r, NotifierRead(r.key, r.n))

\* send_message of a left-behind task returns or raises
StraySent(r, ok) ==
    /\ BagIn(r, strays)
    /\ r.n.pc = "send"
    /\ StrayStep(r, NotifierSent(r.n, ok))

Keys == {KeyOf(c) : c \in ChatIds}

\* every update, every answer of the endpoint and of the chat platform, the
\* job queue, and the tasks its runs left behind
Next ==
    \/ \E c \in Callers : \E edited \in BOOLEAN : Start(c, edited)
    \/ \E c \in ChatIds : \E args \in MonitorArgsOf(c) : \E edited \in BOOLEAN :
          Monitor(c, args, edited, SaveOutcomes, LoadOutcomes)
    \/ \E c \in ChatIds : MonitorNotify(c)
    \/ \E c \in Callers, args \in CheckArgs : \E edited \in BOOLEAN : Check(c, args, edited)
    \/ \E c \in ChatIds : CheckCont(c)
    \/ \E c \in ChatIds : \E edited \in BOOLEAN : Stop(c, edited, SaveOutcomes)
    \/ \E c \in Callers, text \in Texts : \E edited \in BOOLEAN : HandleAddress(c, text, edited)
    \/ \E c \in ChatIds : ReplyReturn(c)
    \/ \E c \in ChatIds : ReplyFails(c)
    \/ \E c \in ChatIds, resp \in Responses : FetchAnswer(c, resp)
    \/ \E c \in ChatIds : BodyAnswer(c)
    \/ PeriodicCheck
    \/ PeriodicReturn
    \/ CycleStart
    \/ \E k \in Keys, resp \in Responses : NotifyAnswer(k, resp)
    \/ \E k \in Keys : NotifyBody(k)
    \/ \E k \in Keys, ok \in BOOLEAN : NotifySent(k, ok)
    \/ \E r \in BagToSet(strays), resp \in Responses : StrayAnswer(r, resp)
    \/ \E r \in BagToSet(strays) : StrayBody(r)
    \/ \E r \in BagToSet(strays), ok \in BOOLEAN : StraySent(r, ok)

\* the program: every behaviour of the specifications below, which restrict
\* what the environment does (the updates that arrive, the answers of the
\* endpoint and of the platform, whether the job queue fires), is a
\* behaviour of Spec
Spec == Init /\ [][Next]_vars

\* the handlers: the resumptions of those suspended and the updates
NextCommands ==
    \/ \E c \in ChatIds : ReplyReturn(c)
    \/ \E c \in ChatIds : ReplyFails(c)
    \/ \E c \in ChatIds : MonitorNotify(c)
    \/ \E c \in ChatIds : CheckCont(c)
    \/ \E c \in ChatIds, resp \in Responses : FetchAnswer(c, resp)
    \/ \E c \in ChatIds : BodyAnswer(c)
    \/ \E c \in Callers : \E edited \in BOOLEAN : Start(c, edited)
    \/ \E c \in Callers, args \in CheckArgs : \E edited \in BOOLEAN : Check(c, args, edited)
    \/ \E c \in Callers, text \in Texts : \E edited \in BOOLEAN : HandleAddress(c, text, edited)
    \/ \E c \in ChatIds : \E edited \in BOOLEAN : Stop(c, edited, SaveOutcomes)
    \/ \E c \in ChatIds : \E args \in MonitorArgsOf(c) : \E edited \in BOOLEAN :
          Monitor(c, args, edited, SaveOutcomes, LoadOutcomes)

\* the command handlers while the job queue does not fire: every update,
\* every answer of the endpoint and of the platform
SpecCommands == Init /\ [][NextCommands]_vars

\* monitor arguments that pass the validation
StoredArgsOf(c) == {args \in MonitorArgsOf(c) : MonitorVerdict(args) = "ok"}

\* answers of the endpoint, one of each outcome of the client: a value
\* below the thresholds above zero, a value above them, an exception, None
CycleResponses ==
    { HttpOk(TRUE, JStr("1.0")), HttpOk(TRUE, JNum("5")), HttpBadBody, HttpStatus(500) }

\* a suspended handler goes on: its send returns, its fetch is answered
Resume ==
    \/ \E c \in ChatIds : ReplyReturn(c)
    \/ \E c \in ChatIds : MonitorNotify(c)
    \/ \E c \in ChatIds, resp \in CycleResponses : FetchAnswer(c, resp)
    \/ \E c \in ChatIds : BodyAnswer(c)

\* the handlers that write the store, sent as new messages, and what they
\* await
NextWriters ==
    \/ Resume
    \/ \E c \in ChatIds : Stop(c, FALSE, SaveOutcomes)
    \/ \E c \in ChatIds : \E args \in StoredArgsOf(c) :
          Monitor(c, args, FALSE, SaveOutcomes, {"ok"})

\* monitor and stop of both chats; the event loop resumes a handler whose
\* await is answered
FairWriters ==
    /\ InitWith(WellFormedFiles, Unlogged)
    /\ [][NextWriters]_vars
    /\ WF_vars(Resume)

\* what the endpoint answers to the handlers beside the job queue
HandlerResponses == { HttpOk(TRUE, JStr("1.0")), HttpStatus(500) }

\* the job queue beside the updates that write the store and carry a message
NextCycles ==
    \/ \E c \in ChatIds : \E args \in StoredArgsOf(c) :
          nsaves < MaxCycleSaves /\ Monitor(c, args, FALSE, {"ok"}, {"ok"})
    \/ \E c \in ChatIds : MonitorNotify(c)
    \/ \E c \in ChatIds : nsaves < MaxCycleSaves /\ Stop(c, FALSE, {"ok"})
    \/ \E c \in ChatIds : ReplyReturn(c)
    \/ \E c \in ChatIds, resp \in HandlerResponses : FetchAnswer(c, resp)
    \/ \E c \in ChatIds : BodyAnswer(c)
    \/ PeriodicCheck
    \/ PeriodicReturn
    \/ CycleStart
    \/ \E k \in Keys, resp \in CycleResponses : NotifyAnswer(k, resp)
    \/ \E k \in Keys : NotifyBody(k)
    \/ \E k \in Keys : NotifySent(k, TRUE)
    \/ \E r \in BagToSet(strays), resp \in CycleResponses : StrayAnswer(r, resp)
    \/ \E r \in BagToSet(strays) : StrayBody(r)
    \/ \E r \in BagToSet(strays) : StraySent(r, TRUE)

\* the files the process of the job queue starts from: no subscriber, one
\* or two
CycleFiles == WellFormedFiles \cup { FileTwoSubscribers }

\* the periodic cycles interleaved with the commands that write the store
\* (their saves succeed), from a file whose entries, if any, monitor would
\* have written
SpecCycles == InitWith(CycleFiles, Unlogged) /\ [][NextCycles]_vars

\* a file of two subscribers, one with the threshold zero
TwoSubscribers ==
    ("7" :> [threshold |-> Float(0, 0), address |-> "swthx"])
        @@ ("-42" :> [threshold |-> Float(1, 0), address |-> "swthx"])

FetchFiles ==
    { FileAbsent, FileOneSubscriber, FileNullThreshold, JsonDump(TwoSubscribers) }

\* what the endpoint answers to the tasks of the job queue where the
\* handlers get every answer
NotifierResponses ==
    { HttpOk(FALSE, JNull), HttpOk(TRUE, JNum("5")), HttpStatus(500),
      HttpBodyTimeout, NetError }

\* whatever fetches while the store stays as it was at startup: check, the
\* text messages and the job queue
NextFetches ==
    \/ \E c \in Callers, args \in CheckArgs : \E edited \in BOOLEAN : Check(c, args, edited)
    \/ \E c \in ChatIds : CheckCont(c)
    \/ \E c \in Callers, text \in Texts : \E edited \in BOOLEAN : HandleAddress(c, text, edited)
    \/ \E c \in ChatIds : ReplyReturn(c)
    \/ \E c \in ChatIds : ReplyFails(c)
    \/ \E c \in ChatIds, resp \in Responses : FetchAnswer(c, resp)
    \/ \E c \in ChatIds : BodyAnswer(c)
    \/ PeriodicCheck
    \/ PeriodicReturn
    \/ CycleStart
    \/ \E k \in Keys, resp \in NotifierResponses : NotifyAnswer(k, resp)
    \/ \E k \in Keys : NotifyBody(k)
    \/ \E k \in Keys, ok \in BOOLEAN : NotifySent(k, ok)
    \/ \E r \in BagToSet(strays), resp \in NotifierResponses : StrayAnswer(r, resp)
    \/ \E r \in BagToSet(strays) : StrayBody(r)
    \/ \E r \in BagToSet(strays), ok \in BOOLEAN : StraySent(r, ok)

\* every answer of the endpoint to every coroutine that fetches, over the
\* subscriptions found at startup
SpecFetches == InitWith(FetchFiles, Unlogged) /\ [][NextFetches]_vars

\* the files of the specification that logs the alerts
AlertFiles == { FileAbsent, FileOneSubscriber, JsonDump(TwoSubscribers) }

NextAlerts ==
    \/ \E c \in Callers : nsaves < MaxCycleSaves /\ Monitor(c, <<"2.0", "swthabc">>, FALSE, {"ok"}, {"ok"})
    \/ \E c \in ChatIds : MonitorNotify(c)
    \/ \E c \in Callers : nsaves < MaxCycleSaves /\ Stop(c, FALSE, {"ok"})
    \/ \E c \in ChatIds : ReplyReturn(c)
    \/ \E c \in ChatIds, resp \in HandlerResponses : FetchAnswer(c, resp)
    \/ \E c \in ChatIds : BodyAnswer(c)
    \/ PeriodicCheck
    \/ PeriodicReturn
    \/ CycleStart
    \/ \E k \in Keys, resp \in CycleResponses : NotifyAnswer(k, resp)
    \/ \E k \in Keys : NotifyBody(k)
    \/ \E k \in Keys : NotifySent(k, TRUE)
    \/ \E r \in BagToSet(strays), resp \in CycleResponses : StrayAnswer(r, resp)
    \/ \E r \in BagToSet(strays) : StrayBody(r)
    \/ \E r \in BagToSet(strays) : StraySent(r, TRUE)

\* the periodic cycles with the log of the keys alerted, over the
\* subscriptions found at startup, beside one chat that subscribes with
\* monitor 2.0 swthabc and stops
SpecAlerts == InitWith(AlertFiles, {}) /\ [][NextAlerts]_vars

(***************************************************************************)
(* The store on its own: load_user_data and save_user_data applied to      *)
(* files and mappings drawn from the sets below                            *)
(***************************************************************************)
\* thresholds a mapping can hold: floats from float(context.args[0]), and
\* whatever numbers the file held at startup
StoreThresholds ==
    { Float(2, 0), Float(125, 2), Float(-5, 1), Float(1, 5), Float(1, -16), NegZero,
      PyInt(2), NaN, NegInf }

\* values of a file edited by hand that are no numbers
OtherValues == { PyNone, PyBool(TRUE), PyStr("2.0"), PyList }

\* mappings of up to two keys with numbers, and of one key with another value
StoreMappings ==
    UNION { [K -> [threshold : StoreThresholds, address : {"swthabc"}]] :
              K \in SUBSET {"7", "-42"} }
      \cup { ("7" :> [threshold |-> v, address |-> "swthabc"]) : v \in OtherValues }

\* a JSON object of one key whose threshold is the token tok
FileOf(tok) ==
    [kind |-> "json", obj |-> ("7" :> [threshold |-> JNum(tok), address |-> "swthabc"])]

\* a JSON object whose number is not written the way json.dump writes it
FileOtherSpelling == FileOf("2.50")

\* a JSON object whose number has an exponent
FileExponent == FileOf("1e5")

\* a JSON object whose number is below the smallest normal double: it is
\* read as a multiple of 2**-1074
FileSubnormal == FileOf("3e-324")

\* a JSON object whose number has more digits than a double holds
FileLongDecimal == FileOf("0.1000000000000000055511151231257827")

\* a JSON object whose number is out of the range of the doubles
FileOverflow == FileOf("1e400")

\* the files whose numbers json.dump would write otherwise
OtherSpellings ==
    { FileOtherSpelling, FileExponent, FileSubnormal, FileLongDecimal, FileOverflow }

\* braces, keys and strings of a JSON object around a token that is not a
\* JSON number
FileBadNumber == FileOf("01")

\* a JSON object whose number is an int of more digits than int() takes
\* (sys.int_info.default_max_str_digits, 4300)
FileHugeInt == FileOf("1" \o Zeros(4300))

\* a JSON object with both: a huge int and a token that is not a number
FileBadAndHuge ==
    [kind |-> "json",
     obj |-> ("7" :> [threshold |-> JNum("01"), address |-> "swthabc"])
               @@ ("-42" :> [threshold |-> JNum("1" \o Zeros(4300)), address |-> "swthabc"])]

\* the files json.dump has not written
SpecialFiles ==
    { FileAbsent, FileBlank, FileGarbage, FileUndecodable, FileBadNumber,
      FileHugeInt, FileBadAndHuge }
        \cup OtherSpellings

StoreFiles == SpecialFiles \cup { JsonDump(m) : m \in StoreMappings }

\* the mappings in memory beside a file json.dump has not written
FewMappings ==
    { EmptyMap,
      ("7" :> [threshold |-> Float(2, 0), address |-> "swthabc"]),
      ("7" :> [threshold |-> Float(125, 2), address |-> "swthabc"])
         @@ ("-42" :> [threshold |-> PyInt(2), address |-> "swthabc"]) }

InitStore ==
    /\ \/ file \in StoreFiles \ SpecialFiles /\ user_data \in StoreMappings
       \/ file \in SpecialFiles /\ user_data \in FewMappings
    /\ task = [c \in ChatIds |-> IdleTask]
    /\ cyc = EmptyMap
    /\ strays = EmptyBag
    /\ ev = NoEvent
    /\ lastOp = [c \in ChatIds |-> NoOp]
    /\ nsaves = 0
    /\ lastSave = "none"
    /\ alerted = Unlogged

\* a call of load_user_data, its result assigned to user_data as at line 50
Load ==
    /\ \/ /\ LoadRaises(file)
          /\ ev' = Returned("", NewTask("load", <<>>), "raised")
          /\ UNCHANGED user_data
       \/ /\ LoadReturns(file)
          /\ ev' = Returned("", NewTask("load", <<>>), "no")
          /\ user_data' = load_user_data(file)
    /\ UNCHANGED <<file, task, cyc, strays, lastOp, nsaves, lastSave, alerted>>

\* a call of save_user_data(user_data)
Save ==
    /\ \E how \in SaveOutcomes :
          /\ file' = save_user_data(file, user_data, how)
          /\ lastSave' = how
    /\ ev' = Returned("", NewTask("save", <<>>), "no")
    /\ UNCHANGED <<user_data, task, cyc, strays, lastOp, nsaves, alerted>>

NextStore == Load \/ Save

SpecStore == InitStore /\ [][NextStore]_vars

(***************************************************************************)
(* Properties                                                              *)
(***************************************************************************)
KeyStr == [c \in ChatIds |-> Str(c)]

LastReply(t) == t.replies[Len(t.replies)]

\* the coroutine awaits session.get or response.json()
Fetching(t) == t.pc \in {"get", "json"}

\* the address the command is about does not start with 'swth' (for a text
\* message the address is the text without surrounding whitespace)
BadAddress(t) ==
    \/ t.cmd = "monitor" /\ Len(t.args) = 2 /\ ~StartsWith(t.args[2], "swth")
    \/ t.cmd = "check" /\ Len(t.args) > 0 /\ ~StartsWith(t.args[1], "swth")
    \/ t.cmd = "text" /\ ~StartsWith(Strip(t.args[1]), "swth")

NoFetchInFlight(bad(_)) ==
    \A c \in ChatIds : bad(task[c]) => ~Fetching(task[c]) /\ task[c].nfetch = 0

\* C1: a command about an address that does not start with 'swth' (monitor
\* with two arguments, whatever its threshold; check with an argument; a
\* text message) ends with the invalid-address reply, stores nothing and
\* fetches nothing.
C1_BadAddressRejected ==
    /\ BadAddress(ev.t) =>
          /\ ev.t.replies # <<>>
          /\ LastReply(ev.t) = InvalidAddressMsg
          /\ ev.t.nfetch = 0
          /\ ~ev.t.stored
    /\ NoFetchInFlight(BadAddress)

\* the keys of user_data that int() turns into chat id c
KeysOfChat(c) == {k \in DOMAIN user_data : ParseInt(k).ok /\ ParseInt(k).v = Str(c)}

\* C2: a chat never has more than one entry in user_data, and after a
\* monitor that stored (and no stop since) it has exactly one, under
\* str(chat id), holding the threshold and the address of that monitor.
C2_OneSubscription ==
    \A c \in ChatIds :
        /\ Cardinality(KeysOfChat(c)) <= 1
        /\ lastOp[c].op = "monitor" =>
              /\ KeysOfChat(c) = {KeyStr[c]}
              /\ user_data[KeyStr[c]] =
                    [threshold |-> ParseFloat(lastOp[c].args[1]),
                     address |-> lastOp[c].args[2]]

C2_Witness ==
    /\ lastOp[7].op = "monitor"
    /\ lastOp[7].count >= 2
    /\ lastOp[7].args = <<"2.0", "swthabc">>
    /\ user_data["7"] = [threshold |-> Float(2, 0), address |-> "swthabc"]
    /\ DOMAIN user_data = {"7"}

\* a check without arguments by a chat whose latest store command was stop
CheckAfterStop(c, t) ==
    t.cmd = "check" /\ Len(t.args) = 0 /\ lastOp[c].op = "stop"

CheckAfterStopSilent ==
    \A c \in ChatIds :
        /\ (ev.chat = KeyStr[c] /\ CheckAfterStop(c, ev.t)) =>
              ev.t.replies = <<CheckingMsg, CheckUsageMsg>> /\ ev.t.nfetch = 0
        /\ CheckAfterStop(c, task[c]) => ~Fetching(task[c]) /\ task[c].nfetch = 0

\* C3: once a chat's stop has returned, neither user_data nor the file
\* holds a subscription of that chat, and its check without arguments
\* replies not-monitoring without fetching.
C3_StopRemoves ==
    /\ \A c \in ChatIds : lastOp[c].op = "stop" => KeyStr[c] \notin DOMAIN user_data
    /\ ev.t.cmd = "stop" => ev.chat \notin DOMAIN load_user_data(file)
    /\ CheckAfterStopSilent

\* the check_and_notify tasks of periodic_check: those of the running
\* cycle and those an earlier one left behind
Notifiers == {"cycle", "stray"}

\* the log entry is a check_and_notify task of a periodic cycle
CycleTask == ev.t.cmd \in Notifiers

\* the log entry is a coroutine whose one fetch was answered by resp
Answered(resp) == ev.t.nfetch = 1 /\ ev.resp = resp

\* what a task has pushed is the alert for the value it got, if the value
\* is below its threshold
AlertOrNothing(sent, res, address, threshold) ==
    sent = IF Lt(res.v, threshold)
           THEN <<AlertMsg(address, res.v, threshold)>>
           ELSE <<>>

\* C4: a task of a periodic cycle whose fetch gave a value pushes one alert,
\* to the chat of its key and naming the address, the value and the
\* threshold, when the value is strictly below the threshold, and pushes
\* nothing when the value is equal to or above it; no task of a cycle ever
\* pushes more than one message.
C4_AlertIffBelow ==
    /\ (CycleTask /\ ev.res.tag = "value") =>
          /\ AlertOrNothing(ev.t.replies, ev.res, ev.t.address, ev.t.threshold)
          /\ ev.chat = ParseInt(ev.t.args[1]).v
    /\ CycleTask => Len(ev.t.replies) <= 1
    /\ \A k \in DOMAIN cyc :
          /\ Len(cyc[k].sent) <= 1
          /\ cyc[k].res.tag = "value" =>
                AlertOrNothing(cyc[k].sent, cyc[k].res, cyc[k].address, cyc[k].threshold)
    /\ \A k \in DOMAIN ev.cycle :
          /\ Len(ev.cycle[k].sent) <= 1
          /\ ev.cycle[k].res.tag = "value" =>
                AlertOrNothing(ev.cycle[k].sent, ev.cycle[k].res,
                               ev.cycle[k].address, ev.cycle[k].threshold)

\* the cycle that is over alerted chat 7 (threshold 2.0, health 1.0) and
\* not chat -42 (threshold 1.0, health 5)
C4_Witness ==
    /\ ev.t.cmd = "periodic"
    /\ ev.crashed = "no"
    /\ DOMAIN ev.cycle = {"7", "-42"}
    /\ ev.cycle["7"].threshold = Float(2, 0)
    /\ ev.cycle["7"].res = HfValue(Float(1, 0))
    /\ ev.cycle["7"].sent = <<AlertMsg("swthabc", Float(1, 0), Float(2, 0))>>
    /\ ev.cycle["-42"].threshold = Float(1, 0)
    /\ ev.cycle["-42"].res = HfValue(Float(5, 0))
    /\ ev.cycle["-42"].sent = <<>>

\* HTTP 200 with a JSON object that has no health_factor field
MissingField == HttpOk(FALSE, JNull)

Zero == Float(0, 0)

\* C5: when the endpoint answers 200 with an object without health_factor
\* the client returns the value 0: a task of the cycle alerts exactly when
\* 0 is below the threshold, check reports 0 for the address or for the
\* subscription, a text message reports 0.
C5_MissingFieldIsZero ==
    Answered(MissingField) =>
        /\ ev.res = HfValue(Zero)
        /\ ev.crashed # "fetch"
        /\ LET t == ev.t
               alert == IF IsNumber(t.threshold) /\ Lt(Zero, t.threshold)
                        THEN <<AlertMsg(t.address, Zero, t.threshold)>>
                        ELSE <<>>
           IN CASE t.cmd \in Notifiers -> t.replies = alert
                [] t.cmd = "check" /\ Len(t.args) > 0 ->
                      t.replies = <<CheckingMsg, HealthMsg(t.args[1], Zero)>>
                [] t.cmd = "check" /\ Len(t.args) = 0 ->
                      t.replies = <<CheckingMsg,
                                    MonitoringMsg(t.address, t.threshold, Zero)>>
                [] t.cmd = "text" ->
                      t.replies = <<CurrentHealthMsg(Strip(t.args[1]), Zero)>>

\* of two subscribers answered without the field, the one with threshold
\* 1.0 is alerted and the one with threshold 0 is not
C5_Witness ==
    /\ CycleTask
    /\ Answered(MissingField)
    /\ ev.chat = "-42"
    /\ ev.crashed = "no"
    /\ ev.t.replies = <<AlertMsg("swthx", Zero, Float(1, 0))>>
    /\ "7" \in DOMAIN cyc
    /\ cyc["7"].pc = "done"
    /\ cyc["7"].threshold = Zero
    /\ cyc["7"].resp = MissingField
    /\ cyc["7"].res = HfValue(Zero)
    /\ cyc["7"].sent = <<>>
    /\ cyc["7"].raised = "no"

\* no message of the sequence shows a health factor
NoHealthShown(replies) ==
    \A i \in 1..Len(replies) : replies[i].health = NoFloat

\* C6: when the endpoint answers with a status other than 200 the client
\* returns None: check with an address and a text message reply unable to
\* fetch, check without an address replies the subscription with unable to
\* fetch, a task of a cycle pushes the unable-to-fetch notice; none of
\* these messages shows a health factor and no alert is sent.
C6_Non200IsFailure ==
    (ev.t.nfetch = 1 /\ ev.resp.net = "ok" /\ ev.resp.status # 200) =>
        /\ ev.res = HfNone
        /\ ev.crashed # "fetch"
        /\ NoHealthShown(ev.t.replies)
        /\ LET t == ev.t
           IN CASE t.cmd \in Notifiers -> t.replies = <<NoticeMsg(t.address)>>
                [] t.cmd = "check" /\ Len(t.args) > 0 ->
                      t.replies = <<CheckingMsg, UnableMsg>>
                [] t.cmd = "check" /\ Len(t.args) = 0 ->
                      t.replies = <<CheckingMsg,
                                    MonitoringUnableMsg(t.address, t.threshold)>>
                [] t.cmd = "text" -> t.replies = <<UnableMsg>>

C6_Witness ==
    /\ Answered(HttpStatus(500))
    /\ ev.t.cmd = "check"
    /\ ev.t.args = <<>>
    /\ ev.crashed = "no"
    /\ ev.t.replies = <<CheckingMsg, MonitoringUnableMsg("swthabc", Float(2, 0))>>

\* the answer is a fetch error: a network failure (an error of the
\* connection, the timeout of the request), a status other than 200, a body
\* that is not a JSON object (whatever its Content-Type says), or a
\* health_factor that float() rejects
FetchError(resp) ==
    \/ resp.net \in {"client_error", "timeout"}
    \/ resp.net = "ok" /\ resp.status # 200
    \/ resp.net = "ok" /\ resp.status = 200
         /\ resp.shape \in {"invalid", "mistyped", "timeout"}
    \/ resp.net = "ok" /\ resp.status = 200 /\ resp.shape = "object"
         /\ resp.has /\ FloatOf(resp.hf).tag = "error"

\* C7: every fetch error (network failure, status other than 200, body that
\* is not JSON, health_factor that is not a number) makes the client return
\* None; no exception leaves the client into the handler or the task.
C7_FetchErrorsCollapse ==
    (ev.t.nfetch = 1 /\ FetchError(ev.resp)) =>
        /\ ev.res = HfNone
        /\ ev.crashed # "fetch"

\* monitor arguments that are malformed: not two of them, or a threshold
\* that float() rejects
Malformed(args) == Len(args) # 2 \/ ParseFloat(args[1]).tag = "error"

\* C8: a monitor with malformed arguments replies with the usage message,
\* stores nothing and fetches nothing.
C8_MalformedGetsUsage ==
    (ev.t.cmd = "monitor" /\ Malformed(ev.t.args)) =>
        /\ ev.t.replies = <<MonitorUsageMsg>>
        /\ ~ev.t.stored
        /\ ev.t.nfetch = 0

\* the subscription a stored monitor with arguments args writes
Subscription(args) == [threshold |-> ParseFloat(args[1]), address |-> args[2]]

\* C9: a monitor that stored has written and saved the caller's subscription
\* before its confirmation, which is its first reply; it then runs one
\* check for the caller (one fetch, of the stored address) and whatever it
\* sends after the confirmation is that check's alert or notice, never the
\* setup-error reply.
C9_MonitorOrder ==
    /\ \A c \in ChatIds :
          (task[c].cmd = "monitor" /\ Len(task[c].replies) > 0 /\ MonitorVerdict(task[c].args) = "ok") =>
              /\ task[c].stored
              /\ task[c].replies[1] =
                    StartedMsg(task[c].args[2], ParseFloat(task[c].args[1]))
              /\ KeyStr[c] \in DOMAIN user_data
              /\ user_data[KeyStr[c]] = Subscription(task[c].args)
              /\ task[c].nfetch <= 1
    /\ (ev.t.cmd = "monitor" /\ ev.t.stored) =>
          /\ ev.t.nfetch = 1
          /\ ev.t.address = ev.t.args[2]
          /\ Len(ev.t.replies) > 0
          /\ ev.t.replies[1] = StartedMsg(ev.t.args[2], ParseFloat(ev.t.args[1]))
          /\ \A i \in 2..Len(ev.t.replies) : ev.t.replies[i] # SetupErrorMsg

\* the coroutine awaits a network call: its fetch or its send
Awaiting(pc) == pc \in {"get", "json", "send"}

\* a handler or a check_and_notify task is waiting for a network call
Suspended ==
    \/ \E c \in ChatIds : Awaiting(task[c].pc)
    \/ \E k \in DOMAIN cyc : Awaiting(cyc[k].pc)
    \/ \E r \in BagToSet(strays) : Awaiting(r.n.pc)

\* C10: unless the latest save failed (so in particular as long as no save
\* has failed), whenever a handler or a task of the cycle is waiting for a
\* network call the file denotes user_data: loading it gives the mapping in
\* memory.
C10_FileMirrorsMemory ==
    (lastSave \in {"none", "ok"} /\ Suspended) => load_user_data(file) = user_data

C10_Witness ==
    /\ lastSave = "ok"
    /\ nsaves = 1
    /\ task[-42].pc = "get"
    /\ task[-42].cmd = "monitor"
    /\ DOMAIN user_data = {"7", "-42"}
    /\ user_data["7"] = [threshold |-> Float(2, 0), address |-> "swthabc"]
    /\ file = JsonDump(user_data)
    /\ load_user_data(file) = user_data

\* the file does not denote the mapping in memory although the latest save
\* succeeded: an update of memory is missing from the file
LostUpdate == lastSave = "ok" /\ load_user_data(file) # user_data

\* C11 as stated: commands of different chats reach a state in which saves
\* that all succeeded have left the file without an update that user_data
\* holds.
C11_Original == <>LostUpdate

\* C11 amended: saves never interleave. save_user_data has no await and
\* runs in the step of its mutation, and a handler starts once the one
\* before it is over: after every save that succeeded the file denotes
\* exactly the mapping in memory, whatever commands of other chats came
\* before; the file misses an update only after a save that failed.
C11_SavesNeverInterleave ==
    /\ ~LostUpdate
    /\ Cardinality({c \in ChatIds : task[c].pc # "idle"}) <= 1

\* chat 7 has subscribed, and chat -42 after it: its monitor awaits its fetch
C11_Witness ==
    /\ lastOp[7].op = "monitor"
    /\ task[7].pc = "idle"
    /\ task[-42].cmd = "monitor" /\ task[-42].stored /\ task[-42].pc = "get"
    /\ lastSave = "ok"
    /\ nsaves = 2
    /\ DOMAIN user_data = {"7", "-42"}
    /\ load_user_data(file) = user_data

\* the step is a save that failed
FailedSave == nsaves' # nsaves /\ lastSave' # "ok"

\* the step is the first step of a monitor of chat c that stored
MonitorStored(c) == task'[c].cmd = "monitor" /\ task[c].pc = "idle" /\ task'[c].stored

\* C12: a save that fails does not abort its command. The stop or monitor
\* that called it (on an update that carries a message) has changed
\* user_data as it would have otherwise (the caller's entry deleted, or
\* replaced by the new subscription, every other entry untouched) and sent
\* its normal reply; the file is left as it was, empty, or with text that
\* does not parse; a monitor whose save failed goes on to its one check and
\* ends with the replies of a monitor whose save succeeded.
C12_FailedSaveHarmless ==
    /\ [][(FailedSave /\ ev'.crashed # "AttributeError") =>
            /\ file' \in {file, FileBlank, FileGarbage}
            /\ \E c \in ChatIds :
                  \/ /\ task[c].pc = "idle"
                     /\ task'[c].cmd = "stop"
                     /\ task'[c].replies = <<StoppedMsg>>
                     /\ user_data' = [k \in DOMAIN user_data \ {KeyStr[c]} |->
                                         user_data[k]]
                  \/ /\ MonitorStored(c)
                     /\ task'[c].after = "notify"
                     /\ task'[c].replies =
                           <<StartedMsg(task'[c].args[2], ParseFloat(task'[c].args[1]))>>
                     /\ DOMAIN user_data' = DOMAIN user_data \cup {KeyStr[c]}
                     /\ user_data'[KeyStr[c]] = Subscription(task'[c].args)
                     /\ \A k \in DOMAIN user_data \ {KeyStr[c]} :
                           user_data'[k] = user_data[k]]_vars
    /\ []((ev.t.cmd = "monitor" /\ ev.t.stored /\ lastSave # "ok"
             /\ ev.crashed \notin {"AttributeError", "TelegramError"}) =>
             /\ ev.t.nfetch = 1
             /\ ev.crashed = "no"
             /\ Len(ev.t.replies) > 0
             /\ ev.t.replies[1] = StartedMsg(ev.t.args[2], ParseFloat(ev.t.args[1]))
             /\ ev.res.tag = "value" =>
                   SubSeq(ev.t.replies, 2, Len(ev.t.replies)) =
                      IF Lt(ev.res.v, ParseFloat(ev.t.args[1]))
                      THEN <<AlertMsg(ev.t.args[2], ev.res.v, ParseFloat(ev.t.args[1]))>>
                      ELSE <<>>
             /\ ev.res.tag = "None" =>
                   SubSeq(ev.t.replies, 2, Len(ev.t.replies)) = <<NoticeMsg(ev.t.args[2])>>)

\* the log entry is a call of load_user_data
Loaded == ev.t.cmd = "load"

\* the file holds a JSON object
HoldsMapping(f) == f.kind = "json" /\ Refused(f, "JSONDecodeError") = {}

\* C13: load_user_data never raises; it returns the empty mapping when the
\* file is absent, blank, or holds content that does not parse (text that
\* is not JSON, bytes that are not text), and the mapping the file holds
\* otherwise.
C13_LoadTotal ==
    Loaded =>
        /\ ev.crashed = "no"
        /\ user_data = IF HoldsMapping(file) THEN JsonLoads(file) ELSE EmptyMap

\* the step is a save that succeeded
SavedOk == ev'.t.cmd = "save" /\ lastSave' = "ok"

\* the mapping a file that parses denotes
Denotes(f) == load_user_data(f)

\* C14: a save that succeeds leaves a file that loads as the mapping saved;
\* and saving what was loaded from a file holding a non-empty mapping leaves
\* a file that denotes the same mapping (the very same content when the
\* file was written by json.dump).
C14_RoundTrip ==
    /\ [][SavedOk => LoadReturns(file') /\ Denotes(file') = user_data]_vars
    /\ [][(SavedOk /\ file.kind = "json" /\ Denotes(file) # EmptyMap
             /\ user_data = Denotes(file)) =>
            /\ Denotes(file') = Denotes(file)
            /\ file \notin OtherSpellings => file' = file]_vars
    /\ []((Loaded /\ ev.crashed = "no" /\ file.kind = "json") =>
             /\ user_data = Denotes(file)
             /\ Denotes(JsonDump(user_data)) = user_data)

C14_Witness ==
    /\ ev.t.cmd = "save"
    /\ lastSave = "ok"
    /\ DOMAIN user_data = {"7", "-42"}
    /\ user_data["7"].threshold = Float(125, 2)
    /\ user_data["-42"].threshold = PyInt(2)
    /\ file.obj["7"].threshold = JNum("1.25")
    /\ file.obj["-42"].threshold = JNum("2")
    /\ Denotes(file) = user_data

\* the commands that only read
ReadOnly == {"start", "check", "text"}

\* the step is one of a start, check or free-text handler: it begins,
\* resumes or returns
ReadOnlyStep ==
    \/ \E c \in ChatIds :
          /\ task'[c] # task[c]
          /\ task[c].cmd \in ReadOnly \/ task'[c].cmd \in ReadOnly
    \/ ev'.t.cmd \in ReadOnly /\ ev' # ev

\* C15: no step of a start, check or free-text handler changes user_data or
\* the file, whatever the update, the arguments and the store; and a start
\* has issued no fetch when it is over.
C15_ReadOnlyCommands ==
    /\ [][ReadOnlyStep => user_data' = user_data /\ file' = file]_vars
    /\ [](ev.t.cmd = "start" => ev.t.nfetch = 0 /\ ev.t.replies \in {<<>>, <<HelpMsg>>})
    /\ [](\A c \in ChatIds : task[c].cmd = "start" => task[c].nfetch = 0 /\ ~Fetching(task[c]))

C15_Witness ==
    /\ ev.t.cmd = "check"
    /\ ev.t.args = <<>>
    /\ ev.t.nfetch = 1
    /\ ev.crashed = "no"
    /\ ev.chat \in DOMAIN user_data
    /\ ev.t.address = user_data[ev.chat].address
    /\ load_user_data(file) = user_data

\* the step is one of the running cycle's task for key k
CycleTaskStep(k) == k \in DOMAIN cyc /\ k \in DOMAIN cyc' /\ cyc'[k] # cyc[k]

\* the running cycle's task of key k starts in this step
Starts(k) == CycleTaskStep(k) /\ cyc[k].pc = "new"

\* C16: a periodic cycle runs to completion on the keys user_data held when
\* it began: when periodic_check is over each of its tasks is done, none is
\* left in flight behind it, and each has issued at most one fetch and
\* pushed at most one message.
C16_CycleOnSnapshot ==
    /\ \A k \in DOMAIN cyc : cyc[k].nfetch <= 1 /\ Len(cyc[k].sent) <= 1
    /\ \A k \in DOMAIN ev.cycle :
          /\ ev.cycle[k].pc = "done"
          /\ ev.cycle[k].nfetch <= 1
          /\ Len(ev.cycle[k].sent) <= ev.cycle[k].nfetch
    /\ strays = EmptyBag

\* the running cycle's task of key k gets, in this step, a value below the
\* threshold it read
AnsweredBelow(k) ==
    /\ CycleTaskStep(k)
    /\ Fetching(cyc[k])
    /\ cyc'[k].res.tag = "value"
    /\ BelowThreshold(cyc'[k].res.v, cyc'[k].threshold)

\* C17: a check_and_notify task of a periodic cycle that gets a value below
\* the threshold pushes an alert whether or not an earlier one alerted the
\* same key, and it pushes the same alert in both cases.
C17_LevelTriggered ==
    /\ [][\A k \in Keys : AnsweredBelow(k) =>
             /\ cyc'[k].pc = "send"
             /\ cyc'[k].again = (k \in alerted)
             /\ cyc'[k].sent =
                   <<AlertMsg(cyc[k].address, cyc'[k].res.v, cyc[k].threshold)>>
             /\ k \in alerted']_vars
    /\ []((CycleTask /\ ev.res.tag = "value" /\ BelowThreshold(ev.res.v, ev.t.threshold)) =>
             ev.t.replies = <<AlertMsg(ev.t.address, ev.res.v, ev.t.threshold)>>)
    /\ [](ev.again => ev.t.cmd \in Notifiers)

\* chat 7, subscribed since startup and alerted by an earlier cycle, is
\* alerted again
C17_Witness ==
    /\ ev.t.cmd = "cycle"
    /\ ev.t.args = <<"7">>
    /\ ev.again
    /\ lastOp[7] = NoOp
    /\ ev.res.tag = "value"
    /\ ev.t.replies = <<AlertMsg("swthabc", ev.res.v, Float(2, 0))>>

\* the running cycle's task of key k hands its message to the platform in
\* this step
Pushes(k) == CycleTaskStep(k) /\ cyc[k].pc # "send" /\ cyc'[k].pc = "send"

\* C18 as stated: when a cycle's task pushes its message, the chat still has
\* the subscription the message reports; after a stop nothing is pushed.
C18_Original ==
    [][\A k \in Keys : Pushes(k) =>
          /\ k \in DOMAIN user_data
          /\ user_data[k] =
                [threshold |-> cyc'[k].threshold, address |-> cyc'[k].address]]_vars

\* the task of key k is suspended at an await
InFlight(k) == k \in DOMAIN cyc /\ Awaiting(cyc[k].pc)

\* what a task that read address and threshold pushes on the answer res
PushedFor(res, address, threshold) ==
    IF res.tag = "value"
    THEN IF BelowThreshold(res.v, threshold)
         THEN <<AlertMsg(address, res.v, threshold)>>
         ELSE <<>>
    ELSE IF res.tag = "None" THEN <<NoticeMsg(address)>>
    ELSE <<>>

\* C18: a cycle's task reads the subscription when it starts and reports
\* that one. A task that starts after the subscription was removed pushes
\* nothing; a task whose fetch is in flight is neither cancelled nor updated
\* by a stop or monitor, nor by the end of its periodic_check, and pushes
\* its alert or notice with the address and threshold it read, whatever
\* user_data holds by then.
C18_ReportsWhatItRead ==
    /\ [][\A k \in Keys : (Starts(k) /\ k \in DOMAIN user_data /\ ParseInt(k).ok) =>
             /\ cyc'[k].pc = "get"
             /\ cyc'[k].address = user_data[k].address
             /\ cyc'[k].threshold = user_data[k].threshold]_vars
    /\ [][\A k \in Keys : (Starts(k) /\ k \notin DOMAIN user_data) =>
             cyc'[k].pc = "done" /\ cyc'[k].sent = <<>> /\ cyc'[k].nfetch = 0]_vars
    /\ [][\A k \in Keys : (InFlight(k) /\ (user_data' # user_data \/ cyc' = EmptyMap)) =>
             IF k \in DOMAIN cyc'
             THEN cyc'[k] = cyc[k]
             ELSE BagIn([key |-> k, n |-> cyc[k]], strays')]_vars
    /\ [][\A k \in Keys : (CycleTaskStep(k) /\ Fetching(cyc[k])) =>
             /\ cyc'[k].to = ParseInt(k).v
             /\ cyc'[k].address = cyc[k].address
             /\ cyc'[k].threshold = cyc[k].threshold
             /\ cyc'[k].res.tag # "none" =>
                   cyc'[k].sent = PushedFor(cyc'[k].res, cyc[k].address, cyc[k].threshold)]_vars
    /\ [][(ev'.t.cmd = "stray" /\ ev'.t.nfetch = 1 /\ ev' # ev) =>
             /\ \E r \in BagToSet(strays) :
                   /\ r.key = ev'.t.args[1]
                   /\ Awaiting(r.n.pc)
                   /\ r.n.address = ev'.t.address
                   /\ r.n.threshold = ev'.t.threshold
             /\ ev'.t.replies = PushedFor(ev'.res, ev'.t.address, ev'.t.threshold)]_vars

\* chat 7 stopped while the cycle's fetch for it was in flight, and is alerted
C18_Witness ==
    /\ CycleTask
    /\ ev.t.replies # <<>>
    /\ ev.chat = "7"
    /\ ev.res.tag = "value"
    /\ ev.t.replies = <<AlertMsg(ev.t.address, ev.res.v, ev.t.threshold)>>
    /\ lastOp[7].op = "stop"
    /\ "7" \notin DOMAIN user_data

\* the entry of key k in a mapping, if any
Entry(data, k) == {data[j] : j \in DOMAIN data \cap {k}}

\* the log entry the step writes is of a handler of chat c
HandlerOver(c) ==
    ev'.chat = KeyStr[c] /\ ev'.t.cmd \notin {"none", "periodic"} \cup Notifiers /\ ev' # ev

\* the step is one of a command of chat c: its handler begins, resumes or
\* returns
CommandStep(c) == task'[c] # task[c] \/ HandlerOver(c)

\* the step is the first of a monitor of chat c that stores, or of a stop
\* of chat c
Writes(c) ==
    /\ task[c].pc = "idle"
    /\ \/ task'[c].cmd = "monitor" /\ task'[c].stored
       \/ HandlerOver(c) /\ ev'.t.cmd = "monitor" /\ ev'.t.stored
       \/ task'[c].cmd = "stop"
       \/ HandlerOver(c) /\ ev'.t.cmd = "stop"

\* C19: a step of a command of chat c leaves the entry of every key but
\* c's as it was; user_data changes in no step but a monitor or stop; and a
\* step of a check_and_notify task or of periodic_check changes neither
\* user_data nor the file.
C19_OthersUntouched ==
    /\ [][\A c \in ChatIds : CommandStep(c) =>
             \A k \in (DOMAIN user_data \cup DOMAIN user_data') \ {KeyStr[c]} :
                 Entry(user_data', k) = Entry(user_data, k)]_vars
    /\ [][user_data' # user_data => \E c \in ChatIds : Writes(c)]_vars
    /\ [][(cyc' # cyc \/ strays' # strays) =>
             user_data' = user_data /\ file' = file]_vars

\* two chats are subscribed and chat 7 has stopped: its stop has deleted
\* its entry, saved and awaits its reply; the entry of chat -42, which has
\* sent nothing, is in memory and in the file as it was
C19_Witness ==
    /\ task[7].cmd = "stop"
    /\ task[7].stored
    /\ task[7].pc # "idle"
    /\ lastOp[-42] = NoOp
    /\ DOMAIN user_data = {"-42"}
    /\ user_data["-42"] = [threshold |-> Float(1, 0), address |-> "swthx"]
    /\ load_user_data(file) = user_data

\* an entry monitor would have stored: an address with the prefix and a
\* threshold that is a number
WellFormed(entry) == StartsWith(entry.address, "swth") /\ IsNumber(entry.threshold)

\* C20: started from an empty mapping or from one whose entries are well
\* formed, every entry of user_data and of a file that parses is well
\* formed, and every check_and_notify that fetches does so for an address
\* with the prefix.
C20_EntriesWellFormed ==
    /\ \A k \in DOMAIN user_data : WellFormed(user_data[k])
    /\ LET onDisk == load_user_data(file)
       IN \A k \in DOMAIN onDisk : WellFormed(onDisk[k])
    /\ \A k \in DOMAIN cyc :
          Fetching(cyc[k]) => StartsWith(cyc[k].address, "swth")
    /\ \A r \in BagToSet(strays) :
          Fetching(r.n) => StartsWith(r.n.address, "swth")
    /\ \A c \in ChatIds :
          (task[c].cmd = "monitor" /\ Fetching(task[c])) =>
              StartsWith(task[c].address, "swth")
    /\ (ev.t.cmd \in {"cycle", "stray", "monitor"} /\ ev.t.nfetch > 0) =>
          StartsWith(ev.t.address, "swth")

\* chat 7 replaced its startup subscription by monitor 0 swthx, and the
\* cycle's fetch for that address is in flight
C20_Witness ==
    /\ "7" \in DOMAIN user_data
    /\ user_data["7"] = [threshold |-> Float(0, 0), address |-> "swthx"]
    /\ lastOp[7].count > 0
    /\ "7" \in DOMAIN cyc
    /\ cyc["7"].pc = "get"
    /\ cyc["7"].address = "swthx"

====
